---------------------------- MODULE Spec2Model ----------------------------
(***************************************************************************)
(* State-machine model of the App component of src/index.tsx (SlideSpark   *)
(* AI): the generation pipeline, the slide store and its drag reordering,  *)
(* and the per-slide regeneration actions.                                 *)
(*                                                                         *)
(* JavaScript arrays of slide objects are modelled as sequences of object  *)
(* identifiers into a heap, because the handlers both copy arrays          *)
(* ([...slides]) and mutate the slide objects they share in place          *)
(* (updated[index].imageUrl = ...).  Array indices are 0-based as in the   *)
(* source; At(arr, i) reads element i.                                     *)
(***************************************************************************)
EXTENDS Integers, Sequences, FiniteSets, TLC

\* ------------------------------------------------------------------ bounds
\* Longest deck the editor-only specification grows by "Add Slide".
MaxEditorSlides == 3
\* Largest number of points of an outline returned by the remote service.
MaxPoints == 2
\* Largest number of points of an outline in the whole-application
\* specification.
MaxAppPoints == 1
\* Longest deck of the shared-deck specification.
MaxShareSlides == 2
\* Largest number of regeneration calls in flight at once.
MaxCalls == 1

\* Heap cells: enough for the deck, every closure's captured deck and the
\* objects a step allocates.
MaxObj == (IF MaxEditorSlides > MaxPoints THEN MaxEditorSlides ELSE MaxPoints)
            * (MaxCalls + 2) + 2

ObjIds == 1..MaxObj

\* ------------------------------------------------------------ JS values
\* useRef<number | null>(null)
Null == -1
\* An array hole (left by assigning past the end of an array).
Hole == 0
\* The value undefined stored as an array element.
Undefined == -2

\* The value null stored as an array element (JSON.parse of "null").
NullSlide == -3

\* imageUrl sentinels: every other value is an image payload.
Sentinels == {"pending", "loading", "error", "undefined"}

\* An object with no field set: {...undefined}.  Also the content of a heap
\* cell no array refers to.
FreeSlide ==
  [title |-> "undefined", content |-> "undefined", imagePrompt |-> "undefined",
   imageUrl |-> "undefined", speakerNotes |-> "undefined", layout |-> "undefined",
   chartData |-> "undefined"]

\* DEFAULT_THEMES
DefaultThemes == {"dark", "modern", "corporate", "minimal", "academic"}

\* A location without fragment; a storage item as a list of theme ids.
NoHash == [kind |-> "none", slides |-> <<>>, theme |-> "", customTheme |-> "null"]
Stored(themes) == [kind |-> "list", themes |-> themes]

\* ------------------------------------------------------------ variables
VARIABLES
  appStep,              \* 'prompt' | 'outline' | 'loading' | 'presentation'
  topic,                \* "" or a non-blank topic
  slideCount,           \* requested number of slides
  progress,             \* <<num, den>>: the number (num / den) * 100
  progressText,
  outlines,             \* sequence of [title, points]
  selectedOutlineIndex, \* Null or an index of outlines
  slides,               \* the slides array: sequence of object ids
  heap,                 \* object id -> slide object
  currentSlideIndex,
  slideActionLoading,   \* the keys <<action, index>> whose flag is true
  isReadOnlyView,
  dragItem,             \* dragItem.current
  dragOverItem,         \* dragOverItem.current
  gen,                  \* the running handleGenerateSlidesFromOutline, if any
  outlineCall,          \* TRUE while handleGenerateOutlines awaits its call
  timer,                \* the pending setTimeout callback, "none" if none
  calls,                \* regeneration handlers suspended at an await
  crashed,              \* a render threw: React unmounted the application
  theme,                \* the active theme id
  customThemes,         \* sequence of custom theme ids
  storage,              \* localStorage item 'slideSparkCustomThemes'
  hash,                 \* window.location.hash
  shareUrl,             \* the fragment of the last published link
  boot                  \* "mount" until the mount effects have run

\* The page around the deck: themes, local storage and the location.
shell == <<theme, customThemes, storage, hash, shareUrl, boot>>

vars == <<appStep, topic, slideCount, progress, progressText, outlines,
          selectedOutlineIndex, slides, heap, currentSlideIndex,
          slideActionLoading, isReadOnlyView, dragItem, dragOverItem, gen,
          outlineCall, timer, calls, crashed, theme, customThemes, storage,
          hash, shareUrl, boot>>

\* ------------------------------------------------------------- helpers
Min(a, b) == IF a < b THEN a ELSE b
Max(a, b) == IF a > b THEN a ELSE b

\* arr[i] of JavaScript: undefined outside the array and at a hole.
At(arr, i) == IF i >= 0 /\ i < Len(arr) /\ arr[i + 1] # Hole THEN arr[i + 1] ELSE Undefined

\* [...arr]: a copy in which holes have become undefined elements.
Spread(arr) == [k \in 1..Len(arr) |-> IF arr[k] = Hole THEN Undefined ELSE arr[k]]

\* arr[i] = x on a copy: assigning past the end leaves holes.
SetAt(arr, i, x) ==
  [k \in 1..Max(Len(arr), i + 1) |->
     IF k = i + 1 THEN x ELSE IF k <= Len(arr) THEN arr[k] ELSE Hole]

\* arr.filter((_, i) => i !== index): filter skips holes.
RECURSIVE FilterOut(_, _, _)
FilterOut(arr, index, k) ==
  IF k > Len(arr) THEN <<>>
  ELSE IF k - 1 = index \/ arr[k] = Hole THEN FilterOut(arr, index, k + 1)
  ELSE <<arr[k]>> \o FilterOut(arr, index, k + 1)

\* arr.splice(start, 1): the array left, and the element removed ([0] of the
\* returned array, undefined when start is past the end).
SpliceOut(arr, start) ==
  IF start < Len(arr)
    THEN [rest |-> SubSeq(arr, 1, start) \o SubSeq(arr, start + 2, Len(arr)),
          item |-> arr[start + 1]]
    ELSE [rest |-> arr, item |-> Undefined]

\* arr.splice(start, 0, x): start is clamped to the length.
SpliceIn(arr, start, x) ==
  LET k == Min(start, Len(arr))
  IN SubSeq(arr, 1, k) \o <<x>> \o SubSeq(arr, k + 1, Len(arr))

Range(arr) == {arr[k] : k \in 1..Len(arr)}

\* PresentationScreen maps over slides and reads slide.layout: an undefined
\* element throws, a hole is skipped.  The other screens do not read slides.
RenderThrows(arr, step) ==
  step = "presentation" /\ (Undefined \in Range(arr) \/ NullSlide \in Range(arr))

\* The objects reachable from the deck and from the suspended closures.
Live(arr, cs) ==
  (Range(arr) \cup UNION {Range(c.snap) : c \in cs} \cup {c.obj : c \in cs}) \cap ObjIds

\* Unreachable objects are collected: their cells are reset.
Collect(h, arr, cs) == [id \in ObjIds |-> IF id \in Live(arr, cs) THEN h[id] ELSE FreeSlide]

\* A fresh object: the lowest free cell.
Alloc(live) == CHOOSE id \in ObjIds : id \notin live /\ \A j \in ObjIds : j < id => j \in live

\* arr with element i dropped from the reachability count: the object a
\* step is about to replace in slot i.
Blank(arr, i) == [k \in 1..Len(arr) |-> IF k = i + 1 THEN Hole ELSE arr[k]]

IdleGen == [pc |-> "idle", i |-> 0, currentStep |-> 0, totalSteps |-> 0, points |-> <<>>]

\* The sidebar and the slide controls are rendered only outside read-only
\* mode, on the presentation step.
EditorShown == ~crashed /\ appStep = "presentation" /\ ~isReadOnlyView

\* ----------------------------------------------------------- slide store
\* onClick={() => setCurrentSlideIndex(index)} of a slide preview.
setCurrentSlideIndex(index) ==
  /\ EditorShown
  /\ index \in 0..(Len(slides) - 1)
  /\ currentSlideIndex' = index
  /\ UNCHANGED shell
  /\ UNCHANGED <<appStep, topic, slideCount, progress, progressText, outlines,
                 selectedOutlineIndex, slides, heap, slideActionLoading,
                 isReadOnlyView, dragItem, dragOverItem, gen, outlineCall,
                 timer, calls, crashed>>

newSlide ==
  [title |-> "New Slide", content |-> "Click to edit content.",
   imagePrompt |-> "A simple background image", imageUrl |-> "undefined",
   speakerNotes |-> "", layout |-> "text-left", chartData |-> "undefined"]

handleAddSlide ==
  /\ EditorShown
  /\ ~isReadOnlyView
  /\ LET id == Alloc(Live(slides, calls))
         newSlides == Spread(slides) \o <<id>>
     IN /\ slides' = newSlides
        /\ heap' = Collect([heap EXCEPT ![id] = newSlide], newSlides, calls)
        /\ currentSlideIndex' = Len(newSlides) - 1
        /\ crashed' = RenderThrows(newSlides, appStep)
  /\ UNCHANGED shell
  /\ UNCHANGED <<appStep, topic, slideCount, progress, progressText, outlines,
                 selectedOutlineIndex, slideActionLoading, isReadOnlyView,
                 dragItem, dragOverItem, gen, outlineCall, timer, calls>>

\* Mutant: the guard that keeps the last slide is dropped.
handleDeleteSlideNoGuard(index) ==
  /\ EditorShown
  /\ index \in 0..(Len(slides) - 1)
  /\ ~isReadOnlyView
  /\ LET newSlides == FilterOut(slides, index, 1)
     IN /\ slides' = newSlides
        /\ heap' = Collect(heap, newSlides, calls)
        /\ crashed' = RenderThrows(newSlides, appStep)
  /\ currentSlideIndex' = IF currentSlideIndex >= index
                            THEN Max(0, currentSlideIndex - 1)
                            ELSE currentSlideIndex
  /\ UNCHANGED shell
  /\ UNCHANGED <<appStep, topic, slideCount, progress, progressText, outlines,
                 selectedOutlineIndex, slideActionLoading, isReadOnlyView,
                 dragItem, dragOverItem, gen, outlineCall, timer, calls>>

\* Mutant: the index is decremented only when it is past the deleted slide.
handleDeleteSlideStrict(index) ==
  /\ EditorShown
  /\ index \in 0..(Len(slides) - 1)
  /\ ~(Len(slides) <= 1 \/ isReadOnlyView)
  /\ LET newSlides == FilterOut(slides, index, 1)
     IN /\ slides' = newSlides
        /\ heap' = Collect(heap, newSlides, calls)
        /\ crashed' = RenderThrows(newSlides, appStep)
  /\ currentSlideIndex' = IF currentSlideIndex > index
                            THEN Max(0, currentSlideIndex - 1)
                            ELSE currentSlideIndex
  /\ UNCHANGED shell
  /\ UNCHANGED <<appStep, topic, slideCount, progress, progressText, outlines,
                 selectedOutlineIndex, slideActionLoading, isReadOnlyView,
                 dragItem, dragOverItem, gen, outlineCall, timer, calls>>

handleDeleteSlide(index) ==
  /\ EditorShown
  /\ index \in 0..(Len(slides) - 1)
  /\ ~(Len(slides) <= 1 \/ isReadOnlyView)
  /\ LET newSlides == FilterOut(slides, index, 1)
     IN /\ slides' = newSlides
        /\ heap' = Collect(heap, newSlides, calls)
        /\ crashed' = RenderThrows(newSlides, appStep)
  /\ currentSlideIndex' = IF currentSlideIndex >= index
                            THEN Max(0, currentSlideIndex - 1)
                            ELSE currentSlideIndex
  /\ UNCHANGED shell
  /\ UNCHANGED <<appStep, topic, slideCount, progress, progressText, outlines,
                 selectedOutlineIndex, slideActionLoading, isReadOnlyView,
                 dragItem, dragOverItem, gen, outlineCall, timer, calls>>

\* onDragStart={() => dragItem.current = index}
onDragStart(index) ==
  /\ EditorShown
  /\ index \in 0..(Len(slides) - 1)
  /\ dragItem' = index
  /\ UNCHANGED shell
  /\ UNCHANGED <<appStep, topic, slideCount, progress, progressText, outlines,
                 selectedOutlineIndex, slides, heap, currentSlideIndex,
                 slideActionLoading, isReadOnlyView, dragOverItem, gen,
                 outlineCall, timer, calls, crashed>>

\* onDragEnter={() => dragOverItem.current = index}
onDragEnter(index) ==
  /\ EditorShown
  /\ index \in 0..(Len(slides) - 1)
  /\ dragOverItem' = index
  /\ UNCHANGED shell
  /\ UNCHANGED <<appStep, topic, slideCount, progress, progressText, outlines,
                 selectedOutlineIndex, slides, heap, currentSlideIndex,
                 slideActionLoading, isReadOnlyView, dragItem, gen,
                 outlineCall, timer, calls, crashed>>

\* Mutant: the selection does not follow the dragged slide.
newCurrentIndexNoFollow(cur, item, over) ==
  IF item < cur /\ over >= cur THEN cur - 1
  ELSE IF item > cur /\ over <= cur THEN cur + 1
  ELSE cur

\* Mutant: only the indices strictly between the two refs are shifted.
newCurrentIndexStrict(cur, item, over) ==
  IF cur = item THEN over
  ELSE IF item < cur /\ over > cur THEN cur - 1
  ELSE IF item > cur /\ over < cur THEN cur + 1
  ELSE cur

\* The index handleDragSort leaves current, given the two refs.
newCurrentIndex(cur, item, over) ==
  IF cur = item THEN over
  ELSE IF item < cur /\ over >= cur THEN cur - 1
  ELSE IF item > cur /\ over <= cur THEN cur + 1
  ELSE cur

\* Mutant: the two slides are exchanged instead of one being moved.
dragSwapped(arr, item, over) ==
  [k \in 1..Len(arr) |->
     IF k = item + 1 /\ over < Len(arr) THEN arr[over + 1]
     ELSE IF k = over + 1 /\ item < Len(arr) THEN arr[item + 1]
     ELSE arr[k]]

\* The array handleDragSort builds: remove at item, insert at over.
dragSorted(arr, item, over) ==
  LET cut == SpliceOut(Spread(arr), item)
  IN SpliceIn(cut.rest, over, cut.item)

\* onDragEnd={handleDragSort}
handleDragSort ==
  /\ EditorShown
  /\ ~(dragItem = Null \/ dragOverItem = Null \/ dragItem = dragOverItem \/ isReadOnlyView)
  /\ LET newSlides == dragSorted(slides, dragItem, dragOverItem)
     IN /\ slides' = newSlides
        /\ heap' = Collect(heap, newSlides, calls)
        /\ crashed' = RenderThrows(newSlides, appStep)
  /\ currentSlideIndex' = newCurrentIndex(currentSlideIndex, dragItem, dragOverItem)
  /\ dragItem' = Null
  /\ dragOverItem' = Null
  /\ UNCHANGED shell
  /\ UNCHANGED <<appStep, topic, slideCount, progress, progressText, outlines,
                 selectedOutlineIndex, slideActionLoading, isReadOnlyView, gen,
                 outlineCall, timer, calls>>


\* ------------------------------------------------ regeneration actions
\* A handler suspended at an await: its index argument and what its closure
\* captured (snap: the slides array of the render it was created in; obj:
\* the slide object it read as currentSlide).  stage "image" is
\* handleRegenerateSlideContent inside its nested handleRegenerateImage.
Call(kind, index, snap, obj, stage) ==
  [kind |-> kind, index |-> index, snap |-> snap, obj |-> obj, stage |-> stage]

\* setActionLoading(action, index, value)
setActionLoading(flags, action, index, value) ==
  IF value THEN flags \cup {<<action, index>>} ELSE flags \ {<<action, index>>}

\* A slide that shows an image (and so the "Regenerate Image" button).
ShowsImage(h, id) == h[id].chartData = "undefined" /\ h[id].imageUrl \notin Sentinels

\* onRegenerateImage(index): handleRegenerateImage up to its await.
handleRegenerateImage(index) ==
  /\ EditorShown
  /\ index \in 0..(Len(slides) - 1)
  /\ At(slides, index) # Undefined
  /\ ShowsImage(heap, At(slides, index))
  /\ <<"image", index>> \notin slideActionLoading
  /\ ~(At(slides, index) = Undefined \/ isReadOnlyView)
  /\ Call("image", index, <<>>, 0, "call") \notin calls
  /\ slideActionLoading' = setActionLoading(slideActionLoading, "image", index, TRUE)
  /\ slides' = Spread(slides)
  /\ heap' = [heap EXCEPT ![At(slides, index)].imageUrl = "loading"]
  /\ calls' = calls \cup {Call("image", index, <<>>, 0, "call")}
  /\ crashed' = RenderThrows(Spread(slides), appStep)
  /\ UNCHANGED shell
  /\ UNCHANGED <<appStep, topic, slideCount, progress, progressText, outlines,
                 selectedOutlineIndex, currentSlideIndex, isReadOnlyView, dragItem,
                 dragOverItem, gen, outlineCall, timer>>

\* The image call of a handleRegenerateImage settles: c is the suspended
\* handler, a direct one or the one nested in handleRegenerateSlideContent.
\* updated[index].imageUrl = ... throws in the state updater when no slide is
\* at index: the render that runs the updater fails.
imageRegenSettled(c, ok) ==
  /\ ~crashed /\ c \in calls
  /\ (c.kind = "image" \/ (c.kind = "content" /\ c.stage = "image"))
  /\ LET id == At(slides, c.index)
         flags == setActionLoading(slideActionLoading, "image", c.index, FALSE)
     IN /\ slideActionLoading' =
             IF c.kind = "content" THEN setActionLoading(flags, "content", c.index, FALSE)
             ELSE flags
        /\ calls' = calls \ {c}
        /\ IF id = Undefined
             THEN /\ crashed' = TRUE
                  /\ slides' = slides
                  /\ heap' = Collect(heap, slides, calls \ {c})
             ELSE /\ slides' = Spread(slides)
                  /\ heap' = Collect(
                       IF ok THEN [heap EXCEPT ![id].imageUrl = "data:image",
                                               ![id].chartData = "undefined"]
                       ELSE [heap EXCEPT ![id].imageUrl = "error"],
                       Spread(slides), calls \ {c})
                  /\ crashed' = RenderThrows(Spread(slides), appStep)
  /\ UNCHANGED shell
  /\ UNCHANGED <<appStep, topic, slideCount, progress, progressText, outlines,
                 selectedOutlineIndex, currentSlideIndex, isReadOnlyView, dragItem,
                 dragOverItem, gen, outlineCall, timer>>

\* onRegenerateChart(index): handleRegenerateChart up to its await.  The
\* button is shown on a slide that has a chart.
handleRegenerateChart(index) ==
  /\ EditorShown
  /\ index \in 0..(Len(slides) - 1)
  /\ At(slides, index) # Undefined
  /\ heap[At(slides, index)].chartData # "undefined"
  /\ <<"chart", index>> \notin slideActionLoading
  /\ ~isReadOnlyView
  /\ Call("chart", index, <<>>, 0, "call") \notin calls
  /\ slideActionLoading' = setActionLoading(slideActionLoading, "chart", index, TRUE)
  /\ calls' = calls \cup {Call("chart", index, <<>>, 0, "call")}
  /\ UNCHANGED shell
  /\ UNCHANGED <<appStep, topic, slideCount, progress, progressText, outlines,
                 selectedOutlineIndex, slides, heap, currentSlideIndex,
                 isReadOnlyView, dragItem, dragOverItem, gen, outlineCall, timer,
                 crashed>>

\* The chart call settles: with a chart in the reply (ok), or without one
\* (the call rejects, the text does not parse, or chart is null).
chartRegenSettled(c, ok) ==
  /\ ~crashed /\ c \in calls /\ c.kind = "chart"
  /\ slideActionLoading' = setActionLoading(slideActionLoading, "chart", c.index, FALSE)
  /\ calls' = calls \ {c}
  /\ LET id == At(slides, c.index)
     IN IF ~ok
          THEN /\ slides' = slides
               /\ heap' = Collect(heap, slides, calls \ {c})
               /\ crashed' = crashed
          ELSE IF id = Undefined
          THEN /\ crashed' = TRUE
               /\ slides' = slides
               /\ heap' = Collect(heap, slides, calls \ {c})
          ELSE /\ slides' = Spread(slides)
               /\ heap' = Collect([heap EXCEPT ![id].chartData = "chart",
                                               ![id].imageUrl = "undefined"],
                                  Spread(slides), calls \ {c})
               /\ crashed' = RenderThrows(Spread(slides), appStep)
  /\ UNCHANGED shell
  /\ UNCHANGED <<appStep, topic, slideCount, progress, progressText, outlines,
                 selectedOutlineIndex, currentSlideIndex, isReadOnlyView, dragItem,
                 dragOverItem, gen, outlineCall, timer>>

\* onRegenerateContent(currentSlideIndex): handleRegenerateSlideContent up to
\* its await.  Reading slides[index].title throws when no slide is at index:
\* the handler then ends at once, its flag reset.
handleRegenerateSlideContent ==
  /\ EditorShown
  /\ <<"content", currentSlideIndex>> \notin slideActionLoading
  /\ ~isReadOnlyView
  /\ LET index == currentSlideIndex
         c == Call("content", index, slides, 0, "call")
     IN IF At(slides, index) = Undefined
          THEN /\ slideActionLoading' = setActionLoading(slideActionLoading, "content", index, FALSE)
               /\ calls' = calls
          ELSE /\ c \notin calls
               /\ slideActionLoading' = setActionLoading(slideActionLoading, "content", index, TRUE)
               /\ calls' = calls \cup {c}
  /\ UNCHANGED shell
  /\ UNCHANGED <<appStep, topic, slideCount, progress, progressText, outlines,
                 selectedOutlineIndex, slides, heap, currentSlideIndex,
                 isReadOnlyView, dragItem, dragOverItem, gen, outlineCall, timer,
                 crashed>>

\* updated[index] = { ...updated[index], ...newSlideContent, chartData: chart,
\* imageUrl: chart ? undefined : 'loading' } on a copy of prev.
withNewContent(prev, h, cs, index, chart) ==
  LET id == Alloc(Live(Blank(prev, index), cs))
      old == IF At(prev, index) = Undefined THEN FreeSlide ELSE h[At(prev, index)]
      obj == [old EXCEPT !.title = "new title", !.content = "new content",
                         !.imagePrompt = "new prompt",
                         !.chartData = IF chart THEN "chart" ELSE "undefined",
                         !.imageUrl = IF chart THEN "undefined" ELSE "loading"]
  IN [slides |-> SetAt(Spread(prev), index, id), heap |-> [h EXCEPT ![id] = obj]]

\* A variant of contentRegenFailed without the finally block.
contentRegenFailedNoFinally(c) ==
  /\ ~crashed /\ c \in calls /\ c.kind = "content" /\ c.stage = "call"
  /\ slideActionLoading' = slideActionLoading
  /\ calls' = calls \ {c}
  /\ heap' = Collect(heap, slides, calls \ {c})
  /\ UNCHANGED shell
  /\ UNCHANGED <<appStep, topic, slideCount, progress, progressText, outlines,
                 selectedOutlineIndex, slides, currentSlideIndex, isReadOnlyView,
                 dragItem, dragOverItem, gen, outlineCall, timer, crashed>>

\* The content call of handleRegenerateSlideContent rejects or returns text
\* that does not parse.
contentRegenFailed(c) ==
  /\ ~crashed /\ c \in calls /\ c.kind = "content" /\ c.stage = "call"
  /\ slideActionLoading' = setActionLoading(slideActionLoading, "content", c.index, FALSE)
  /\ calls' = calls \ {c}
  /\ heap' = Collect(heap, slides, calls \ {c})
  /\ UNCHANGED shell
  /\ UNCHANGED <<appStep, topic, slideCount, progress, progressText, outlines,
                 selectedOutlineIndex, slides, currentSlideIndex, isReadOnlyView,
                 dragItem, dragOverItem, gen, outlineCall, timer, crashed>>

\* The content call resolves with a chart: the slide is replaced and the
\* handler ends.
contentRegenChart(c) ==
  /\ ~crashed /\ c \in calls /\ c.kind = "content" /\ c.stage = "call"
  /\ LET upd == withNewContent(slides, heap, calls \ {c}, c.index, TRUE)
     IN /\ slides' = upd.slides
        /\ heap' = Collect(upd.heap, upd.slides, calls \ {c})
        /\ crashed' = RenderThrows(upd.slides, appStep)
  /\ slideActionLoading' = setActionLoading(slideActionLoading, "content", c.index, FALSE)
  /\ calls' = calls \ {c}
  /\ UNCHANGED shell
  /\ UNCHANGED <<appStep, topic, slideCount, progress, progressText, outlines,
                 selectedOutlineIndex, currentSlideIndex, isReadOnlyView, dragItem,
                 dragOverItem, gen, outlineCall, timer>>

\* The content call resolves without a chart.  The state updater is queued,
\* then handleRegenerateImage(index) of the same closure runs up to its
\* await: it marks the slide of its captured array as loading and calls
\* setSlides(newSlides) with a copy of that captured array, which replaces
\* the queued updater's result in the same batch.
contentRegenImage(c) ==
  /\ ~crashed /\ c \in calls /\ c.kind = "content" /\ c.stage = "call"
  /\ LET upd == withNewContent(slides, heap, calls \ {c}, c.index, FALSE)
         next == [c EXCEPT !.stage = "image"]
     IN IF At(c.snap, c.index) = Undefined
          THEN /\ slides' = upd.slides
               /\ heap' = Collect(upd.heap, upd.slides, calls \ {c})
               /\ crashed' = RenderThrows(upd.slides, appStep)
               /\ slideActionLoading' = setActionLoading(slideActionLoading, "content", c.index, FALSE)
               /\ calls' = calls \ {c}
          ELSE /\ slides' = Spread(c.snap)
               /\ heap' = Collect([heap EXCEPT ![At(c.snap, c.index)].imageUrl = "loading"],
                                  Spread(c.snap), (calls \ {c}) \cup {next})
               /\ crashed' = RenderThrows(Spread(c.snap), appStep)
               /\ slideActionLoading' = setActionLoading(slideActionLoading, "image", c.index, TRUE)
               /\ calls' = (calls \ {c}) \cup {next}
  /\ UNCHANGED shell
  /\ UNCHANGED <<appStep, topic, slideCount, progress, progressText, outlines,
                 selectedOutlineIndex, currentSlideIndex, isReadOnlyView, dragItem,
                 dragOverItem, gen, outlineCall, timer>>

\* onEnhance(currentSlideIndex): handleEnhanceSlide up to its await.  Reading
\* currentSlide.title throws when no slide is at index.
handleEnhanceSlide ==
  /\ EditorShown
  /\ <<"enhance", currentSlideIndex>> \notin slideActionLoading
  /\ ~isReadOnlyView
  /\ LET index == currentSlideIndex
         c == Call("enhance", index, <<>>, At(slides, index), "call")
     IN IF At(slides, index) = Undefined
          THEN /\ slideActionLoading' = setActionLoading(slideActionLoading, "enhance", index, FALSE)
               /\ calls' = calls
          ELSE /\ c \notin calls
               /\ slideActionLoading' = setActionLoading(slideActionLoading, "enhance", index, TRUE)
               /\ calls' = calls \cup {c}
  /\ UNCHANGED shell
  /\ UNCHANGED <<appStep, topic, slideCount, progress, progressText, outlines,
                 selectedOutlineIndex, slides, heap, currentSlideIndex,
                 isReadOnlyView, dragItem, dragOverItem, gen, outlineCall, timer,
                 crashed>>

\* A variant of enhanceSettled without the test newContent.length > 0: a
\* reply without bullet lines is written to the slide like any other.
enhanceSettledUnchecked(c, reply) ==
  /\ ~crashed /\ c \in calls /\ c.kind = "enhance"
  /\ slideActionLoading' = setActionLoading(slideActionLoading, "enhance", c.index, FALSE)
  /\ calls' = calls \ {c}
  /\ LET id == At(slides, c.index)
         newTitle == IF reply = "rewritten" THEN "enhanced title" ELSE heap[c.obj].title
     IN IF id = Undefined
          THEN /\ crashed' = TRUE
               /\ slides' = slides
               /\ heap' = Collect(heap, slides, calls \ {c})
          ELSE /\ slides' = Spread(slides)
               /\ heap' = Collect([heap EXCEPT ![id].title = newTitle,
                                               ![id].content =
                                                  IF reply = "none" THEN "no content"
                                                  ELSE "enhanced content"],
                                  Spread(slides), calls \ {c})
               /\ crashed' = RenderThrows(Spread(slides), appStep)
  /\ UNCHANGED shell
  /\ UNCHANGED <<appStep, topic, slideCount, progress, progressText, outlines,
                 selectedOutlineIndex, currentSlideIndex, isReadOnlyView, dragItem,
                 dragOverItem, gen, outlineCall, timer>>

\* The rewrite call settles.  reply is "rewritten" (a Title: line and bullet
\* lines), "untitled" (bullet lines only: the title falls back to
\* currentSlide.title) or "none" (no bullet line, or the call rejected).
enhanceSettled(c, reply) ==
  /\ ~crashed /\ c \in calls /\ c.kind = "enhance"
  /\ slideActionLoading' = setActionLoading(slideActionLoading, "enhance", c.index, FALSE)
  /\ calls' = calls \ {c}
  /\ LET id == At(slides, c.index)
         newTitle == IF reply = "rewritten" THEN "enhanced title" ELSE heap[c.obj].title
     IN IF reply = "none"
          THEN /\ slides' = slides
               /\ heap' = Collect(heap, slides, calls \ {c})
               /\ crashed' = crashed
          ELSE IF id = Undefined
          THEN /\ crashed' = TRUE
               /\ slides' = slides
               /\ heap' = Collect(heap, slides, calls \ {c})
          ELSE /\ slides' = Spread(slides)
               /\ heap' = Collect([heap EXCEPT ![id].title = newTitle,
                                               ![id].content = "enhanced content"],
                                  Spread(slides), calls \ {c})
               /\ crashed' = RenderThrows(Spread(slides), appStep)
  /\ UNCHANGED shell
  /\ UNCHANGED <<appStep, topic, slideCount, progress, progressText, outlines,
                 selectedOutlineIndex, currentSlideIndex, isReadOnlyView, dragItem,
                 dragOverItem, gen, outlineCall, timer>>

\* updatedSlides[index] = { ...updatedSlides[index], [field]: value } on a
\* copy of arr, the slides array of the closure handleUpdateSlide runs in.
withField(arr, h, cs, index, field, value) ==
  LET id == Alloc(Live(Blank(arr, index), cs))
      old == IF At(arr, index) = Undefined THEN FreeSlide ELSE h[At(arr, index)]
  IN [slides |-> SetAt(Spread(arr), index, id),
      heap |-> [h EXCEPT ![id] = [old EXCEPT ![field] = value]]]

\* onUpdateSlide(index, field, value).  The title and content inputs belong
\* to a rendered slide and the notes textarea is shown when
\* slides[currentSlideIndex] exists; the layout buttons act on
\* currentSlideIndex whether or not a slide is there, "image-full" being
\* disabled on a slide with a chart.  A slide object without content makes
\* the render throw (slide.content.join).
handleUpdateSlide(index, field, value) ==
  /\ EditorShown
  /\ ~isReadOnlyView
  /\ IF field = "layout"
       THEN /\ index = currentSlideIndex
            /\ ~(value = "image-full" /\ At(slides, index) # Undefined
                                      /\ heap[At(slides, index)].chartData # "undefined")
       ELSE /\ index \in 0..(Len(slides) - 1)
            /\ At(slides, index) # Undefined
            /\ field = "speakerNotes" => index = currentSlideIndex
  /\ LET upd == withField(slides, heap, calls, index, field, value)
     IN /\ slides' = upd.slides
        /\ heap' = Collect(upd.heap, upd.slides, calls)
        /\ crashed' = (RenderThrows(upd.slides, appStep)
                         \/ upd.heap[At(upd.slides, index)].content = "undefined")
  /\ UNCHANGED shell
  /\ UNCHANGED <<appStep, topic, slideCount, progress, progressText, outlines,
                 selectedOutlineIndex, currentSlideIndex, slideActionLoading,
                 isReadOnlyView, dragItem, dragOverItem, gen, outlineCall, timer,
                 calls>>

\* onGenerate of the speaker notes panel, shown when slides[currentSlideIndex]
\* exists: handleGenerateSpeakerNotes up to its await.
handleGenerateSpeakerNotes ==
  /\ EditorShown
  /\ At(slides, currentSlideIndex) # Undefined
  /\ <<"notes", currentSlideIndex>> \notin slideActionLoading
  /\ ~isReadOnlyView
  /\ Call("notes", currentSlideIndex, slides, 0, "call") \notin calls
  /\ slideActionLoading' = setActionLoading(slideActionLoading, "notes", currentSlideIndex, TRUE)
  /\ calls' = calls \cup {Call("notes", currentSlideIndex, slides, 0, "call")}
  /\ UNCHANGED shell
  /\ UNCHANGED <<appStep, topic, slideCount, progress, progressText, outlines,
                 selectedOutlineIndex, slides, heap, currentSlideIndex,
                 isReadOnlyView, dragItem, dragOverItem, gen, outlineCall, timer,
                 crashed>>

\* The notes call settles.  On success the handler calls the handleUpdateSlide
\* of its own closure, which copies the slides array that closure captured.
notesSettled(c, ok) ==
  /\ ~crashed /\ c \in calls /\ c.kind = "notes"
  /\ slideActionLoading' = setActionLoading(slideActionLoading, "notes", c.index, FALSE)
  /\ calls' = calls \ {c}
  /\ IF ok
       THEN LET upd == withField(c.snap, heap, calls \ {c}, c.index, "speakerNotes", "generated notes")
            IN /\ slides' = upd.slides
               /\ heap' = Collect(upd.heap, upd.slides, calls \ {c})
               /\ crashed' = RenderThrows(upd.slides, appStep)
       ELSE /\ slides' = slides
            /\ heap' = Collect(heap, slides, calls \ {c})
            /\ crashed' = crashed
  /\ UNCHANGED shell
  /\ UNCHANGED <<appStep, topic, slideCount, progress, progressText, outlines,
                 selectedOutlineIndex, currentSlideIndex, isReadOnlyView, dragItem,
                 dragOverItem, gen, outlineCall, timer>>

\* ------------------------------------------------------ service replies
\* The point texts an outline reply may carry: outline o, point k.
PointText(o, k) ==
  <<<<"a1", "a2", "a3", "a4", "a5">>, <<"b1", "b2", "b3", "b4", "b5">>>>[o][k]

\* An outline of n points, as parsed from the outline reply.
OutlineOf(o, n) == [title |-> <<"A", "B">>[o], points |-> [k \in 1..n |-> PointText(o, k)]]

\* A slide as the pipeline leaves it once its image call has succeeded.
imageSlide(title) ==
  [title |-> title, content |-> "content", imagePrompt |-> "prompt",
   imageUrl |-> "data:image", speakerNotes |-> "", layout |-> "text-left",
   chartData |-> "undefined"]

\* A slide as the pipeline leaves it when its content reply carries a chart.
chartSlide(title) ==
  [title |-> title, content |-> "content", imagePrompt |-> "prompt",
   imageUrl |-> "undefined", speakerNotes |-> "", layout |-> "text-left",
   chartData |-> "chart"]

\* --------------------------------------------------------- prompt screen
\* The number (num / den) * 100, in lowest terms.
RECURSIVE GCD(_, _)
GCD(a, b) == IF b = 0 THEN a ELSE GCD(b, a % b)

Percent(num, den) == IF num = 0 THEN <<0, 1>> ELSE <<num \div GCD(num, den), den \div GCD(num, den)>>

Text(kind, title) == [kind |-> kind, title |-> title]

\* onChange={(e) => setTopic(e.target.value)}
setTopic(t) ==
  /\ ~crashed /\ ~isReadOnlyView /\ appStep = "prompt"
  /\ topic' = t
  /\ UNCHANGED shell
  /\ UNCHANGED <<appStep, slideCount, progress, progressText, outlines,
                 selectedOutlineIndex, slides, heap, currentSlideIndex,
                 slideActionLoading, isReadOnlyView, dragItem, dragOverItem, gen,
                 outlineCall, timer, calls, crashed>>

\* onChange={(e) => setSlideCount(Number(e.target.value))}
setSlideCount(n) ==
  /\ ~crashed /\ ~isReadOnlyView /\ appStep = "prompt"
  /\ slideCount' = n
  /\ UNCHANGED shell
  /\ UNCHANGED <<appStep, topic, progress, progressText, outlines,
                 selectedOutlineIndex, slides, heap, currentSlideIndex,
                 slideActionLoading, isReadOnlyView, dragItem, dragOverItem, gen,
                 outlineCall, timer, calls, crashed>>

\* handleGenerateOutlines up to its await.
handleGenerateOutlines ==
  /\ ~crashed /\ ~isReadOnlyView /\ appStep = "prompt"
  /\ topic # ""
  /\ appStep' = "loading"
  /\ progress' = Percent(0, 1)
  /\ progressText' = Text("brainstorming", "")
  /\ outlineCall' = TRUE
  /\ UNCHANGED shell
  /\ UNCHANGED <<topic, slideCount, outlines, selectedOutlineIndex, slides, heap,
                 currentSlideIndex, slideActionLoading, isReadOnlyView, dragItem,
                 dragOverItem, gen, timer, calls, crashed>>

\* The outline call resolves and its text parses to generatedOutlines.
outlinesResolved(generatedOutlines) ==
  /\ ~crashed /\ outlineCall
  /\ outlineCall' = FALSE
  /\ progress' = Percent(1, 1)
  /\ outlines' = generatedOutlines
  /\ selectedOutlineIndex' = 0
  /\ appStep' = "outline"
  /\ UNCHANGED shell
  /\ UNCHANGED <<topic, slideCount, progressText, slides, heap, currentSlideIndex,
                 slideActionLoading, isReadOnlyView, dragItem, dragOverItem, gen,
                 timer, calls, crashed>>

\* The outline call rejects (parsed = FALSE), or resolves with text that
\* JSON.parse rejects (parsed = TRUE: setProgress(100) has already run).
outlinesFailed(resolved) ==
  /\ ~crashed /\ outlineCall
  /\ outlineCall' = FALSE
  /\ progress' = IF resolved THEN Percent(1, 1) ELSE progress
  /\ progressText' = Text("error", "")
  /\ timer' = "prompt"
  /\ UNCHANGED shell
  /\ UNCHANGED <<appStep, topic, slideCount, outlines, selectedOutlineIndex, slides,
                 heap, currentSlideIndex, slideActionLoading, isReadOnlyView,
                 dragItem, dragOverItem, gen, calls, crashed>>

\* setTimeout(() => setAppStep(...), ...) fires.
timerFires ==
  /\ ~crashed /\ timer # "none"
  /\ appStep' = timer
  /\ timer' = "none"
  /\ crashed' = RenderThrows(slides, timer)
  /\ UNCHANGED shell
  /\ UNCHANGED <<topic, slideCount, progress, progressText, outlines,
                 selectedOutlineIndex, slides, heap, currentSlideIndex,
                 slideActionLoading, isReadOnlyView, dragItem, dragOverItem, gen,
                 outlineCall, calls>>

\* -------------------------------------------------------- outline screen
\* onClick={() => setSelectedOutlineIndex(index)} of an outline card.
setSelectedOutlineIndex(index) ==
  /\ ~crashed /\ ~isReadOnlyView /\ appStep = "outline"
  /\ index \in 0..(Len(outlines) - 1)
  /\ selectedOutlineIndex' = index
  /\ UNCHANGED shell
  /\ UNCHANGED <<appStep, topic, slideCount, progress, progressText, outlines,
                 slides, heap, currentSlideIndex, slideActionLoading,
                 isReadOnlyView, dragItem, dragOverItem, gen, outlineCall, timer,
                 calls, crashed>>

\* onBack={() => setAppStep('prompt')}
onBack ==
  /\ ~crashed /\ ~isReadOnlyView /\ appStep = "outline"
  /\ appStep' = "prompt"
  /\ UNCHANGED shell
  /\ UNCHANGED <<topic, slideCount, progress, progressText, outlines,
                 selectedOutlineIndex, slides, heap, currentSlideIndex,
                 slideActionLoading, isReadOnlyView, dragItem, dragOverItem, gen,
                 outlineCall, timer, calls, crashed>>

\* handlePointChange(outlineIndex, pointIndex, value) of OutlineScreen: the
\* inputs of a card are read-only unless the card is the selected one.
handlePointChange(outlineIndex, pointIndex, value) ==
  /\ ~crashed /\ ~isReadOnlyView /\ appStep = "outline"
  /\ outlineIndex \in 0..(Len(outlines) - 1)
  /\ selectedOutlineIndex = outlineIndex
  /\ pointIndex \in 0..(Len(outlines[outlineIndex + 1].points) - 1)
  /\ outlines' = [outlines EXCEPT ![outlineIndex + 1].points[pointIndex + 1] = value]
  /\ UNCHANGED shell
  /\ UNCHANGED <<appStep, topic, slideCount, progress, progressText,
                 selectedOutlineIndex, slides, heap, currentSlideIndex,
                 slideActionLoading, isReadOnlyView, dragItem, dragOverItem, gen,
                 outlineCall, timer, calls, crashed>>

\* ------------------------------------------------- generation pipeline
\* initialSlides: one placeholder per point.
placeholder(title) ==
  [title |-> title, content |-> "", imagePrompt |-> "", imageUrl |-> "pending",
   speakerNotes |-> "", layout |-> "text-left", chartData |-> "undefined"]

\* n fresh objects.
RECURSIVE AllocN(_, _)
AllocN(live, n) ==
  IF n = 0 THEN <<>>
  ELSE LET id == Alloc(live) IN <<id>> \o AllocN(live \cup {id}, n - 1)

\* The loop head of handleGenerateSlidesFromOutline with loop variable i: the
\* next content call is issued, or the loop is over and the run finishes.
loopHead(g, i) ==
  IF i < Len(g.points)
    THEN [gen |-> [g EXCEPT !.pc = "content", !.i = i],
          progress |-> Percent(g.currentStep, g.totalSteps),
          progressText |-> Text("content", g.points[i + 1]),
          timer |-> "none"]
    ELSE [gen |-> IdleGen,
          progress |-> Percent(1, 1),
          progressText |-> Text("finalizing", ""),
          timer |-> "presentation"]

\* A variant of handleGenerateSlidesFromOutline that reads the first outline
\* whatever the selection.
handleGenerateSlidesFromFirstOutline ==
  /\ ~crashed /\ ~isReadOnlyView /\ appStep = "outline"
  /\ selectedOutlineIndex # Null
  /\ LET selectedOutline == outlines[1]
         n == Len(selectedOutline.points)
         ids == AllocN(Live(<<>>, calls), n)
         g == [pc |-> "content", i |-> 0, currentStep |-> 0, totalSteps |-> n * 2,
               points |-> selectedOutline.points]
         head == loopHead(g, 0)
     IN /\ appStep' = "loading"
        /\ slides' = ids
        /\ heap' = Collect([id \in ObjIds |->
                              IF \E k \in 1..n : ids[k] = id
                                THEN placeholder(selectedOutline.points[CHOOSE k \in 1..n : ids[k] = id])
                                ELSE heap[id]], ids, calls)
        /\ gen' = head.gen
        /\ progress' = IF n = 0 THEN head.progress ELSE Percent(0, 1)
        /\ progressText' = head.progressText
        /\ timer' = head.timer
  /\ UNCHANGED shell
  /\ UNCHANGED <<topic, slideCount, outlines, selectedOutlineIndex,
                 currentSlideIndex, slideActionLoading, isReadOnlyView, dragItem,
                 dragOverItem, outlineCall, calls, crashed>>

\* handleGenerateSlidesFromOutline up to its first await.
handleGenerateSlidesFromOutline ==
  /\ ~crashed /\ ~isReadOnlyView /\ appStep = "outline"
  /\ selectedOutlineIndex # Null
  /\ LET selectedOutline == outlines[selectedOutlineIndex + 1]
         n == Len(selectedOutline.points)
         ids == AllocN(Live(<<>>, calls), n)
         g == [pc |-> "content", i |-> 0, currentStep |-> 0, totalSteps |-> n * 2,
               points |-> selectedOutline.points]
         head == loopHead(g, 0)
     IN /\ appStep' = "loading"
        /\ slides' = ids
        /\ heap' = Collect([id \in ObjIds |->
                              IF \E k \in 1..n : ids[k] = id
                                THEN placeholder(selectedOutline.points[CHOOSE k \in 1..n : ids[k] = id])
                                ELSE heap[id]], ids, calls)
        /\ gen' = head.gen
        /\ progress' = IF n = 0 THEN head.progress ELSE Percent(0, 1)
        /\ progressText' = head.progressText
        /\ timer' = head.timer
  /\ UNCHANGED shell
  /\ UNCHANGED <<topic, slideCount, outlines, selectedOutlineIndex,
                 currentSlideIndex, slideActionLoading, isReadOnlyView, dragItem,
                 dragOverItem, outlineCall, calls, crashed>>

\* A variant of withContent that pushes the slide instead of assigning it to
\* slot i.
withContentAppend(prev, h, cs, i, chart) ==
  LET id == Alloc(Live(prev, cs))
      old == IF At(prev, i) = Undefined THEN FreeSlide ELSE h[At(prev, i)]
      obj == IF chart
               THEN [old EXCEPT !.content = "content", !.imagePrompt = "prompt",
                                !.chartData = "chart", !.imageUrl = "undefined"]
               ELSE [old EXCEPT !.content = "content", !.imagePrompt = "prompt",
                                !.imageUrl = "loading"]
  IN [slides |-> Spread(prev) \o <<id>>, heap |-> [h EXCEPT ![id] = obj]]

\* updated[i] = { ...updated[i], content, imagePrompt, chartData?, imageUrl }
\* on a copy of prev: the array and the heap that result.
withContent(prev, h, cs, i, chart) ==
  LET id == Alloc(Live(Blank(prev, i), cs))
      old == IF At(prev, i) = Undefined THEN FreeSlide ELSE h[At(prev, i)]
      obj == IF chart
               THEN [old EXCEPT !.content = "content", !.imagePrompt = "prompt",
                                !.chartData = "chart", !.imageUrl = "undefined"]
               ELSE [old EXCEPT !.content = "content", !.imagePrompt = "prompt",
                                !.imageUrl = "loading"]
  IN [slides |-> SetAt(Spread(prev), i, id), heap |-> [h EXCEPT ![id] = obj]]

\* A variant of contentResolved that counts a chart as one step.
contentResolvedOneStep(chart) ==
  /\ ~crashed /\ gen.pc = "content"
  /\ LET g == [gen EXCEPT !.currentStep = gen.currentStep + 1]
         upd == withContent(slides, heap, calls, gen.i, chart)
         head == loopHead(g, gen.i + 1)
     IN /\ slides' = upd.slides
        /\ heap' = Collect(upd.heap, upd.slides, calls)
        /\ IF chart
             THEN /\ gen' = head.gen
                  /\ progress' = head.progress
                  /\ progressText' = head.progressText
                  /\ timer' = head.timer
             ELSE /\ gen' = [g EXCEPT !.pc = "image"]
                  /\ progress' = Percent(g.currentStep, g.totalSteps)
                  /\ progressText' = Text("image", gen.points[gen.i + 1])
                  /\ timer' = timer
  /\ UNCHANGED shell
  /\ UNCHANGED <<appStep, topic, slideCount, outlines, selectedOutlineIndex,
                 currentSlideIndex, slideActionLoading, isReadOnlyView, dragItem,
                 dragOverItem, outlineCall, calls, crashed>>

\* A variant of contentResolved that issues the image call without awaiting
\* it and goes on with the loop.
contentResolvedNoAwait(chart) ==
  /\ ~crashed /\ gen.pc = "content"
  /\ LET g == [gen EXCEPT !.currentStep = gen.currentStep + 2]
         upd == withContent(slides, heap, calls, gen.i, chart)
         head == loopHead(g, gen.i + 1)
     IN /\ slides' = upd.slides
        /\ heap' = Collect(upd.heap, upd.slides, calls)
        /\ gen' = head.gen
        /\ progress' = head.progress
        /\ progressText' = head.progressText
        /\ timer' = head.timer
  /\ UNCHANGED shell
  /\ UNCHANGED <<appStep, topic, slideCount, outlines, selectedOutlineIndex,
                 currentSlideIndex, slideActionLoading, isReadOnlyView, dragItem,
                 dragOverItem, outlineCall, calls, crashed>>

\* The content call of slide gen.i resolves with parseable text; chart says
\* whether the reply carries a chart.
contentResolved(chart) ==
  /\ ~crashed /\ gen.pc = "content"
  /\ LET g == [gen EXCEPT !.currentStep = gen.currentStep + (IF chart THEN 2 ELSE 1)]
         upd == withContent(slides, heap, calls, gen.i, chart)
         head == loopHead(g, gen.i + 1)
     IN /\ slides' = upd.slides
        /\ heap' = Collect(upd.heap, upd.slides, calls)
        /\ IF chart
             THEN /\ gen' = head.gen
                  /\ progress' = head.progress
                  /\ progressText' = head.progressText
                  /\ timer' = head.timer
             ELSE /\ gen' = [g EXCEPT !.pc = "image"]
                  /\ progress' = Percent(g.currentStep, g.totalSteps)
                  /\ progressText' = Text("image", gen.points[gen.i + 1])
                  /\ timer' = timer
  /\ UNCHANGED shell
  /\ UNCHANGED <<appStep, topic, slideCount, outlines, selectedOutlineIndex,
                 currentSlideIndex, slideActionLoading, isReadOnlyView, dragItem,
                 dragOverItem, outlineCall, calls, crashed>>

\* A variant of contentFailed that skips the slide and goes on with the loop.
contentFailedSkips(resolved) ==
  /\ ~crashed /\ gen.pc = "content"
  /\ LET g == [gen EXCEPT !.currentStep = gen.currentStep + 2]
         head == loopHead(g, gen.i + 1)
     IN /\ gen' = head.gen
        /\ progress' = head.progress
        /\ progressText' = head.progressText
        /\ timer' = head.timer
  /\ UNCHANGED shell
  /\ UNCHANGED <<appStep, topic, slideCount, outlines, selectedOutlineIndex, slides,
                 heap, currentSlideIndex, slideActionLoading, isReadOnlyView,
                 dragItem, dragOverItem, outlineCall, calls, crashed>>

\* The content call rejects (resolved = FALSE), or resolves with text that
\* JSON.parse rejects (resolved = TRUE: the step has been counted).
contentFailed(resolved) ==
  /\ ~crashed /\ gen.pc = "content"
  /\ gen' = IdleGen
  /\ progress' = IF resolved THEN Percent(gen.currentStep + 1, gen.totalSteps) ELSE progress
  /\ progressText' = Text("error", "")
  /\ timer' = "outline"
  /\ UNCHANGED shell
  /\ UNCHANGED <<appStep, topic, slideCount, outlines, selectedOutlineIndex, slides,
                 heap, currentSlideIndex, slideActionLoading, isReadOnlyView,
                 dragItem, dragOverItem, outlineCall, calls, crashed>>

\* if (updated[i]) updated[i].imageUrl = url, on a copy of prev.
withImageUrl(prev, h, i, url) ==
  [slides |-> Spread(prev),
   heap |-> IF At(prev, i) = Undefined THEN h ELSE [h EXCEPT ![At(prev, i)].imageUrl = url]]

\* A variant of imageSettled in which a rejected image call ends the run as
\* a rejected content call does.
imageSettledAborts(ok) ==
  /\ ~crashed /\ gen.pc = "image"
  /\ LET g == [gen EXCEPT !.currentStep = gen.currentStep + 1]
         upd == withImageUrl(slides, heap, gen.i, IF ok THEN "data:image" ELSE "error")
         head == loopHead(g, gen.i + 1)
     IN /\ slides' = upd.slides
        /\ heap' = upd.heap
        /\ gen' = IF ok THEN head.gen ELSE IdleGen
        /\ progress' = IF ok THEN head.progress ELSE progress
        /\ progressText' = IF ok THEN head.progressText ELSE Text("error", "")
        /\ timer' = IF ok THEN head.timer ELSE "outline"
  /\ UNCHANGED shell
  /\ UNCHANGED <<appStep, topic, slideCount, outlines, selectedOutlineIndex,
                 currentSlideIndex, slideActionLoading, isReadOnlyView, dragItem,
                 dragOverItem, outlineCall, calls, crashed>>

\* The image call of slide gen.i resolves (ok) or rejects.
imageSettled(ok) ==
  /\ ~crashed /\ gen.pc = "image"
  /\ LET g == [gen EXCEPT !.currentStep = gen.currentStep + 1]
         upd == withImageUrl(slides, heap, gen.i, IF ok THEN "data:image" ELSE "error")
         head == loopHead(g, gen.i + 1)
     IN /\ slides' = upd.slides
        /\ heap' = upd.heap
        /\ gen' = head.gen
        /\ progress' = head.progress
        /\ progressText' = head.progressText
        /\ timer' = head.timer
  /\ UNCHANGED shell
  /\ UNCHANGED <<appStep, topic, slideCount, outlines, selectedOutlineIndex,
                 currentSlideIndex, slideActionLoading, isReadOnlyView, dragItem,
                 dragOverItem, outlineCall, calls, crashed>>

\* onStartOver of the header, outside a shared link.
handleStartOver ==
  /\ EditorShown
  /\ ~(isReadOnlyView \/ hash.kind # "none")
  /\ slides' = <<>>
  /\ heap' = Collect(heap, <<>>, calls)
  /\ outlines' = <<>>
  /\ selectedOutlineIndex' = Null
  /\ currentSlideIndex' = 0
  /\ appStep' = "prompt"
  /\ UNCHANGED shell
  /\ UNCHANGED <<topic, slideCount, progress, progressText, slideActionLoading,
                 isReadOnlyView, dragItem, dragOverItem, gen, outlineCall, timer,
                 calls, crashed>>

\* ------------------------------------------------------ share links
\* JSON.parse(JSON.stringify(slides)): a hole and an undefined element are
\* written as null; a field that is undefined is dropped, and reads as
\* undefined again.
JsonSlide(s) == [f \in {g \in DOMAIN s : s[g] # "undefined"} |-> s[f]]

Json(arr, h) ==
  [k \in 1..Len(arr) |->
     IF arr[k] \in ObjIds THEN [null |-> FALSE, slide |-> JsonSlide(h[arr[k]])]
     ELSE [null |-> TRUE, slide |-> JsonSlide(FreeSlide)]]

\* The object JSON.parse builds from the text of a slide: reading a key the
\* text does not have gives undefined.
ParseSlide(j) == [f \in DOMAIN FreeSlide |-> IF f \in DOMAIN j THEN j[f] ELSE "undefined"]

\* The fragment handlePublish builds: '#share=' + btoa(JSON.stringify(payload)).
ShareHash(arr, h, th, customs) ==
  [kind |-> "share", slides |-> Json(arr, h), theme |-> th,
   customTheme |-> IF th \in Range(customs) THEN th ELSE "null"]

\* handlePublish.  btoa throws on a character outside Latin-1 (latin1 =
\* FALSE): the link is not created.
handlePublish(latin1) ==
  /\ EditorShown
  /\ shareUrl' = IF latin1 THEN ShareHash(slides, heap, theme, customThemes) ELSE shareUrl
  /\ UNCHANGED <<theme, customThemes, storage, hash, boot>>
  /\ UNCHANGED <<appStep, topic, slideCount, progress, progressText, outlines,
                 selectedOutlineIndex, slides, heap, currentSlideIndex,
                 slideActionLoading, isReadOnlyView, dragItem, dragOverItem, gen,
                 outlineCall, timer, calls, crashed>>

\* A page load: every piece of React state is at its useState initial value,
\* the refs are null, and the mount effects have not run yet.
pageLoad(h, st) ==
  /\ appStep' = "prompt"
  /\ topic' = ""
  /\ slideCount' = MaxPoints
  /\ progress' = <<0, 1>>
  /\ progressText' = [kind |-> "", title |-> ""]
  /\ outlines' = <<>>
  /\ selectedOutlineIndex' = Null
  /\ slides' = <<>>
  /\ heap' = [id \in ObjIds |-> FreeSlide]
  /\ currentSlideIndex' = 0
  /\ slideActionLoading' = {}
  /\ isReadOnlyView' = FALSE
  /\ dragItem' = Null
  /\ dragOverItem' = Null
  /\ gen' = IdleGen
  /\ outlineCall' = FALSE
  /\ timer' = "none"
  /\ calls' = {}
  /\ crashed' = FALSE
  /\ theme' = "dark"
  /\ customThemes' = <<>>
  /\ storage' = st
  /\ hash' = h
  /\ shareUrl' = NoHash
  /\ boot' = "mount"

\* The published link is opened in a browser whose storage item is st.
openShareLink(st) ==
  /\ boot = "done" /\ shareUrl.kind = "share"
  /\ pageLoad(shareUrl, st)

\* A link with a '#share=' fragment that was not produced by handlePublish.
openForeignLink(h, st) ==
  /\ boot = "done"
  /\ pageLoad(h, st)

\* handleStartOver under a shared link: window.location.href =
\* window.location.pathname.  The button is "Create Your Own" in read-only
\* mode and "Start Over" otherwise.
handleStartOverReload ==
  /\ ~crashed /\ appStep = "presentation" /\ boot = "done"
  /\ (isReadOnlyView \/ hash.kind # "none")
  /\ pageLoad(NoHash, storage)

\* The array setSlides(payload.slides) stores: one fresh object per slide,
\* null where the text has null.
Decoded(js) ==
  [k \in 1..Len(js) |->
     IF js[k].null THEN NullSlide ELSE Cardinality({j \in 1..k : ~js[j].null})]

DecodedHeap(js) ==
  [id \in ObjIds |->
     IF \E k \in 1..Len(js) : Decoded(js)[k] = id
       THEN ParseSlide(js[CHOOSE k \in 1..Len(js) : Decoded(js)[k] = id].slide)
       ELSE FreeSlide]

\* A variant of mountEffects that leaves out setIsReadOnlyView(true).
mountEffectsEditable ==
  /\ boot = "mount"
  /\ boot' = "done"
  /\ LET accepted == hash.kind \in {"share", "notarray"}
         merged == IF hash.kind = "share" /\ hash.customTheme # "null"
                     THEN <<hash.customTheme>> ELSE <<>>
     IN /\ slides' = IF hash.kind = "share" THEN Decoded(hash.slides) ELSE slides
        /\ heap' = IF hash.kind = "share" THEN DecodedHeap(hash.slides) ELSE heap
        /\ theme' = IF accepted THEN hash.theme ELSE theme
        /\ isReadOnlyView' = FALSE
        /\ appStep' = IF accepted THEN "presentation" ELSE appStep
        /\ crashed' = (hash.kind = "notarray"
                         \/ (hash.kind = "share"
                               /\ RenderThrows(Decoded(hash.slides), "presentation")))
        /\ hash' = IF hash.kind = "undecodable" THEN NoHash ELSE hash
        /\ customThemes' = IF storage.kind = "list" THEN storage.themes ELSE merged
        /\ storage' = Stored(customThemes')
  /\ UNCHANGED <<topic, slideCount, progress, progressText, outlines,
                 selectedOutlineIndex, currentSlideIndex, slideActionLoading,
                 dragItem, dragOverItem, gen, outlineCall, timer, calls, shareUrl>>

\* The three mount effects, in order, and the render they cause: the share
\* effect, the load of the saved custom themes, and the save of the custom
\* themes (which runs again when the collection has changed).  The state
\* updates of the effects are applied in the order they were queued:
\* setCustomThemes(saved) replaces what the share effect's updater produced.
\* Fragment kinds: "undecodable" (atob or JSON.parse throws, or the text is
\* null), "shapeless" (an object without slides or without theme),
\* "notarray" (slides is a truthy value that is not an array).
mountEffects ==
  /\ boot = "mount"
  /\ boot' = "done"
  /\ LET accepted == hash.kind \in {"share", "notarray"}
         merged == IF hash.kind = "share" /\ hash.customTheme # "null"
                     THEN <<hash.customTheme>> ELSE <<>>
     IN /\ slides' = IF hash.kind = "share" THEN Decoded(hash.slides) ELSE slides
        /\ heap' = IF hash.kind = "share" THEN DecodedHeap(hash.slides) ELSE heap
        /\ theme' = IF accepted THEN hash.theme ELSE theme
        /\ isReadOnlyView' = accepted
        /\ appStep' = IF accepted THEN "presentation" ELSE appStep
        /\ crashed' = (hash.kind = "notarray"
                         \/ (hash.kind = "share"
                               /\ RenderThrows(Decoded(hash.slides), "presentation")))
        /\ hash' = IF hash.kind = "undecodable" THEN NoHash ELSE hash
        /\ customThemes' = IF storage.kind = "list" THEN storage.themes ELSE merged
        /\ storage' = Stored(customThemes')
  /\ UNCHANGED <<topic, slideCount, progress, progressText, outlines,
                 selectedOutlineIndex, currentSlideIndex, slideActionLoading,
                 dragItem, dragOverItem, gen, outlineCall, timer, calls, shareUrl>>

\* ------------------------------------------------------------- themes
\* onClick={() => setTheme(t.id)} of a theme card of the header.
setTheme(id) ==
  /\ EditorShown
  /\ id \in DefaultThemes \cup Range(customThemes)
  /\ theme' = id
  /\ UNCHANGED <<customThemes, storage, hash, shareUrl, boot>>
  /\ UNCHANGED <<appStep, topic, slideCount, progress, progressText, outlines,
                 selectedOutlineIndex, slides, heap, currentSlideIndex,
                 slideActionLoading, isReadOnlyView, dragItem, dragOverItem, gen,
                 outlineCall, timer, calls, crashed>>

\* handleSaveCustomTheme(newTheme), newTheme.id being `custom-${Date.now()}`;
\* then the save effect.
handleSaveCustomTheme(id) ==
  /\ EditorShown
  /\ id \notin DefaultThemes \cup Range(customThemes)
  /\ customThemes' = Append(customThemes, id)
  /\ theme' = id
  /\ storage' = Stored(customThemes')
  /\ UNCHANGED <<hash, shareUrl, boot>>
  /\ UNCHANGED <<appStep, topic, slideCount, progress, progressText, outlines,
                 selectedOutlineIndex, slides, heap, currentSlideIndex,
                 slideActionLoading, isReadOnlyView, dragItem, dragOverItem, gen,
                 outlineCall, timer, calls, crashed>>

\* handleDeleteCustomTheme(themeId) of a custom theme card; then the save
\* effect.
handleDeleteCustomTheme(themeId) ==
  /\ EditorShown
  /\ themeId \in Range(customThemes)
  /\ theme' = IF theme = themeId THEN "dark" ELSE theme
  /\ customThemes' = SelectSeq(customThemes, LAMBDA t : t # themeId)
  /\ storage' = Stored(customThemes')
  /\ UNCHANGED <<hash, shareUrl, boot>>
  /\ UNCHANGED <<appStep, topic, slideCount, progress, progressText, outlines,
                 selectedOutlineIndex, slides, heap, currentSlideIndex,
                 slideActionLoading, isReadOnlyView, dragItem, dragOverItem, gen,
                 outlineCall, timer, calls, crashed>>

\* ------------------------------------------------------- initial state
\* The state after the first render of App.  The slider's range of 5 to 15
\* slides is scaled down to 1..MaxPoints, the range of the outline replies.
Init ==
  /\ appStep = "prompt"
  /\ topic = ""
  /\ slideCount = MaxPoints
  /\ progress = Percent(0, 1)
  /\ progressText = Text("", "")
  /\ outlines = <<>>
  /\ selectedOutlineIndex = Null
  /\ slides = <<>>
  /\ heap = [id \in ObjIds |-> FreeSlide]
  /\ currentSlideIndex = 0
  /\ slideActionLoading = {}
  /\ isReadOnlyView = FALSE
  /\ dragItem = Null
  /\ dragOverItem = Null
  /\ gen = IdleGen
  /\ outlineCall = FALSE
  /\ timer = "none"
  /\ calls = {}
  /\ crashed = FALSE
  /\ theme = "dark"
  /\ customThemes = <<>>
  /\ storage = Stored(<<>>)
  /\ hash = NoHash
  /\ shareUrl = NoHash
  /\ boot = "done"

\* The outline replies considered: two outlines of up to MaxPoints points.
OutlineReplies ==
  {<<OutlineOf(1, n1), OutlineOf(2, n2)>> : n1 \in 0..MaxPoints, n2 \in 0..MaxPoints}

\* ----------------------------------------------- the pipeline on its own
\* From the prompt screen to the presentation, and over again: no slide is
\* edited or regenerated.
NextPipeline ==
  \/ \E t \in {"", "topic"} : setTopic(t)
  \/ \E n \in 1..MaxPoints : setSlideCount(n)
  \/ handleGenerateOutlines
  \/ \E reply \in OutlineReplies : outlinesResolved(reply)
  \/ \E resolved \in BOOLEAN : outlinesFailed(resolved)
  \/ timerFires
  \/ \E index \in 0..1 : setSelectedOutlineIndex(index)
  \/ onBack
  \/ handleGenerateSlidesFromOutline
  \/ \E chart \in BOOLEAN : contentResolved(chart)
  \/ \E resolved \in BOOLEAN : contentFailed(resolved)
  \/ \E ok \in BOOLEAN : imageSettled(ok)
  \/ handleStartOver

SpecPipeline == Init /\ [][NextPipeline]_vars

\* Every call the pipeline awaits settles, and every timer fires.
SpecPipelineFair ==
  /\ SpecPipeline
  /\ WF_vars(\E chart \in BOOLEAN : contentResolved(chart) \/ contentFailed(chart))
  /\ WF_vars(\E ok \in BOOLEAN : imageSettled(ok))
  /\ WF_vars(timerFires)

\* ---------------------------------------------------- the outline screen
\* Choosing and editing an outline, then the run over it.
NextOutline ==
  \/ setTopic("topic")
  \/ handleGenerateOutlines
  \/ \E reply \in OutlineReplies : outlinesResolved(reply)
  \/ timerFires
  \/ \E index \in 0..1 : setSelectedOutlineIndex(index)
  \/ \E o \in 0..1, k \in 0..(MaxPoints - 1) : handlePointChange(o, k, "edited")
  \/ handleGenerateSlidesFromOutline
  \/ \E chart \in BOOLEAN : contentResolved(chart)
  \/ contentFailed(FALSE)
  \/ \E ok \in BOOLEAN : imageSettled(ok)

SpecOutline == Init /\ [][NextOutline]_vars

\* ------------------------------------------------ the whole application
\* The pipeline, then the editor with its regeneration actions, and over
\* again, on decks of up to MaxAppPoints slides.  The sidebar (select, add,
\* delete, drag) is explored by SpecEditor, the slider by SpecPipeline.
\* The edits typed or clicked in the editor that the specification explores.
Edits == {<<"layout", "text-right">>}

\* The outline replies it explores: one outline.
AppReplies == {<<OutlineOf(1, n)>> : n \in 1..MaxAppPoints}

\* At most MaxCalls regeneration handlers are suspended at a time.
Room == Cardinality(calls) < MaxCalls

Next ==
  \/ setTopic("topic")
  \/ handleGenerateOutlines
  \/ \E reply \in AppReplies : outlinesResolved(reply)
  \/ outlinesFailed(FALSE)
  \/ timerFires
  \/ setSelectedOutlineIndex(0)
  \/ onBack
  \/ handleGenerateSlidesFromOutline
  \/ \E chart \in BOOLEAN : contentResolved(chart)
  \/ contentFailed(FALSE)
  \/ \E ok \in BOOLEAN : imageSettled(ok)
  \/ handleStartOver
  \/ \E index \in 0..(MaxAppPoints - 1), e \in Edits : handleUpdateSlide(index, e[1], e[2])
  \/ \E index \in 0..(MaxAppPoints - 1) : (Room /\ handleRegenerateImage(index))
  \/ \E index \in 0..(MaxAppPoints - 1) : (Room /\ handleRegenerateChart(index))
  \/ (Room /\ handleRegenerateSlideContent)
  \/ (Room /\ handleEnhanceSlide)
  \/ (Room /\ handleGenerateSpeakerNotes)
  \/ \E c \in calls, ok \in BOOLEAN : imageRegenSettled(c, ok)
  \/ \E c \in calls, ok \in BOOLEAN : chartRegenSettled(c, ok)
  \/ \E c \in calls : contentRegenFailed(c)
  \/ \E c \in calls : contentRegenChart(c)
  \/ \E c \in calls : contentRegenImage(c)
  \/ \E c \in calls, reply \in {"rewritten", "untitled", "none"} : enhanceSettled(c, reply)
  \/ \E c \in calls, ok \in BOOLEAN : notesSettled(c, ok)

Spec == Init /\ [][Next]_vars

\* ------------------------------------------------------- shared decks
\* An authoring session on a finished deck, the links it publishes, and the
\* sessions that open them.
\* The deck a finished run over MaxShareSlides points leaves.
FinishedDeck == [k \in 1..MaxShareSlides |-> k]
FinishedHeap ==
  [id \in ObjIds |->
     IF id = 1 THEN chartSlide(PointText(1, id))
     ELSE IF id <= MaxShareSlides THEN imageSlide(PointText(1, id)) ELSE FreeSlide]

InitShare ==
  /\ appStep = "presentation"
  /\ topic = "topic"
  /\ slideCount = MaxPoints
  /\ progress = Percent(1, 1)
  /\ progressText = Text("finalizing", "")
  /\ outlines = <<OutlineOf(1, MaxShareSlides)>>
  /\ selectedOutlineIndex = 0
  /\ slides = FinishedDeck
  /\ heap = FinishedHeap
  /\ currentSlideIndex = 0
  /\ slideActionLoading = {}
  /\ isReadOnlyView = FALSE
  /\ dragItem = Null
  /\ dragOverItem = Null
  /\ gen = IdleGen
  /\ outlineCall = FALSE
  /\ timer = "none"
  /\ calls = {}
  /\ crashed = FALSE
  /\ theme = "dark"
  /\ customThemes = <<>>
  /\ storage = Stored(<<>>)
  /\ hash = NoHash
  /\ shareUrl = NoHash
  /\ boot = "done"

\* The storage items a browser may hold.
StorageValues ==
  {[kind |-> "absent", themes |-> <<>>], [kind |-> "garbage", themes |-> <<>>],
   Stored(<<>>), Stored(<<"custom-1">>), Stored(<<"custom-2">>)}

\* The session has not published yet; and it has not changed its deck yet.
Authoring == shareUrl.kind = "none"
Untouched == Authoring /\ calls = {} /\ slides = FinishedDeck /\ heap = FinishedHeap

\* One edit or one regeneration of the finished deck, then its publication.
NextShare ==
  \/ \E index \in 0..(MaxShareSlides - 1) : (Untouched /\ setCurrentSlideIndex(index))
  \/ (Untouched /\ handleAddSlide)
  \/ \E index \in 0..(MaxShareSlides - 1) : (Untouched /\ handleDeleteSlide(index))
  \/ \E index \in 0..(MaxShareSlides - 1) : (Untouched /\ onDragStart(index))
  \/ \E index \in 0..(MaxShareSlides - 1) : (Untouched /\ onDragEnter(index))
  \/ (Untouched /\ handleDragSort)
  \/ \E e \in Edits : (Untouched /\ handleUpdateSlide(currentSlideIndex, e[1], e[2]))
  \/ (Untouched /\ handleRegenerateImage(currentSlideIndex))
  \/ (Untouched /\ handleRegenerateChart(currentSlideIndex))
  \/ (Untouched /\ handleRegenerateSlideContent)
  \/ (Untouched /\ handleEnhanceSlide)
  \/ (Untouched /\ handleGenerateSpeakerNotes)
  \/ \E c \in calls, ok \in BOOLEAN : imageRegenSettled(c, ok)
  \/ \E c \in calls : chartRegenSettled(c, TRUE)
  \/ \E c \in calls : contentRegenChart(c)
  \/ \E c \in calls : enhanceSettled(c, "rewritten")
  \/ \E c \in calls : notesSettled(c, TRUE)
  \/ (Authoring /\ calls = {} /\ handlePublish(TRUE))
  \/ \E st \in StorageValues : openShareLink(st)
  \/ mountEffects
  \/ handleStartOverReload

SpecShare == InitShare /\ [][NextShare]_vars

\* ------------------------------------------------- the editor on its own
\* The editor as a finished pipeline run over n points leaves it, then the
\* structural edits of the sidebar only.
InitEditor ==
  \E n \in 1..MaxEditorSlides :
    /\ appStep = "presentation"
    /\ topic = "topic"
    /\ slideCount = n
    /\ progress = <<1, 1>>
    /\ progressText = [kind |-> "finalizing", title |-> ""]
    /\ outlines = <<OutlineOf(1, n)>>
    /\ selectedOutlineIndex = 0
    /\ slides = [k \in 1..n |-> k]
    /\ heap = [id \in ObjIds |-> IF id <= n THEN imageSlide(PointText(1, id)) ELSE FreeSlide]
    /\ currentSlideIndex = 0
    /\ slideActionLoading = {}
    /\ isReadOnlyView = FALSE
    /\ dragItem = Null
    /\ dragOverItem = Null
    /\ gen = IdleGen
    /\ outlineCall = FALSE
    /\ timer = "none"
    /\ calls = {}
    /\ crashed = FALSE
  /\ theme = "dark"
  /\ customThemes = <<>>
  /\ storage = Stored(<<>>)
  /\ hash = NoHash
  /\ shareUrl = NoHash
  /\ boot = "done"

NextEditor ==
  \/ \E index \in 0..(MaxEditorSlides - 1) : setCurrentSlideIndex(index)
  \/ (Len(slides) < MaxEditorSlides /\ handleAddSlide)
  \/ \E index \in 0..(MaxEditorSlides - 1) : handleDeleteSlide(index)
  \/ \E index \in 0..(MaxEditorSlides - 1) : onDragStart(index)
  \/ \E index \in 0..(MaxEditorSlides - 1) : onDragEnter(index)
  \/ handleDragSort

SpecEditor == InitEditor /\ [][NextEditor]_vars

\* ------------------------------------------- the earlier editor (part_000)
\* The first version of the application kept in src/unnamed/part_000: one
\* screen switch on isLoading and slides.length, no add or delete, and a
\* handleDragSort of its own.  It uses slides, currentSlideIndex and the two
\* drag refs; the other variables do not exist in it and stay as they are.
earlierFrame ==
  <<appStep, topic, slideCount, progress, progressText, outlines,
    selectedOutlineIndex, heap, slideActionLoading, isReadOnlyView, gen,
    outlineCall, timer, calls, crashed, theme, customThemes, storage, hash,
    shareUrl, boot>>

\* renderContent shows PresentationScreen: not loading, slides.length > 0.
earlierPresentationShown == ~crashed /\ Len(slides) > 0

\* onClick={() => setCurrentSlideIndex(index)}
earlierSetCurrentSlideIndex(index) ==
  /\ earlierPresentationShown
  /\ index \in 0..(Len(slides) - 1)
  /\ currentSlideIndex' = index
  /\ UNCHANGED <<slides, dragItem, dragOverItem>>
  /\ UNCHANGED earlierFrame

\* onDragStart={() => dragItem.current = index}
earlierOnDragStart(index) ==
  /\ earlierPresentationShown
  /\ index \in 0..(Len(slides) - 1)
  /\ dragItem' = index
  /\ UNCHANGED <<slides, currentSlideIndex, dragOverItem>>
  /\ UNCHANGED earlierFrame

\* onDragEnter={() => dragOverItem.current = index}
earlierOnDragEnter(index) ==
  /\ earlierPresentationShown
  /\ index \in 0..(Len(slides) - 1)
  /\ dragOverItem' = index
  /\ UNCHANGED <<slides, currentSlideIndex, dragItem>>
  /\ UNCHANGED earlierFrame

\* The selection after the earlier handleDragSort: the handler compares
\* currentSlideIndex with dragItem.current and then reads
\* dragOverItem.current, both after it has set the two refs (item, over:
\* the refs as they are at the comparison).
earlierSelection(cur, item, over) == IF cur = item THEN over ELSE cur

\* onDragEnd={handleDragSort}, the handler of part_000: the refs are set to
\* null before setSlides and before the comparison with currentSlideIndex.
earlierHandleDragSort ==
  /\ earlierPresentationShown
  /\ ~(dragItem = Null \/ dragOverItem = Null)
  /\ slides' = dragSorted(slides, dragItem, dragOverItem)
  /\ dragItem' = Null
  /\ dragOverItem' = Null
  /\ currentSlideIndex' = earlierSelection(currentSlideIndex, dragItem', dragOverItem')
  /\ UNCHANGED earlierFrame

NextEarlier ==
  \/ \E index \in 0..(MaxEditorSlides - 1) : earlierSetCurrentSlideIndex(index)
  \/ \E index \in 0..(MaxEditorSlides - 1) : earlierOnDragStart(index)
  \/ \E index \in 0..(MaxEditorSlides - 1) : earlierOnDragEnter(index)
  \/ earlierHandleDragSort

\* A generated deck of 1..MaxEditorSlides slides on the presentation screen.
SpecEarlier == InitEditor /\ [][NextEarlier]_vars

\* ------------------------------------------------- publishing a deck
\* An authoring session on a finished deck: slides are selected, deleted,
\* retitled and regenerated, a theme is chosen or made, the deck is published
\* and the link is opened.
NextPublish ==
  \/ \E index \in 0..(MaxEditorSlides - 1) : (Authoring /\ setCurrentSlideIndex(index))
  \/ \E index \in 0..(MaxEditorSlides - 1) : (Authoring /\ handleDeleteSlide(index))
  \/ (Authoring /\ Room /\ handleRegenerateSlideContent)
  \/ \E c \in calls : contentRegenChart(c)
  \/ \E c \in calls : contentRegenImage(c)
  \/ \E c \in calls : imageRegenSettled(c, TRUE)
  \/ \E id \in {"modern", "custom-1"} : (Authoring /\ setTheme(id))
  \/ (Authoring /\ handleSaveCustomTheme("custom-1"))
  \/ (Authoring /\ handleDeleteCustomTheme("custom-1"))
  \/ \E latin1 \in BOOLEAN : (Authoring /\ handlePublish(latin1))
  \/ \E st \in StorageValues : openShareLink(st)
  \/ mountEffects
  \/ handleStartOverReload

SpecPublish == InitEditor /\ [][NextPublish]_vars

\* ------------------------------------------------- links from elsewhere
\* The fragments a link not made by handlePublish may carry: text that atob
\* or JSON.parse rejects, an object without slides or theme, an object whose
\* slides is not an array, and payloads of the published shape, with a known
\* or an unknown theme id, with or without a carried custom theme, and with
\* or without a null among the slides.
ForeignHashes ==
  {[kind |-> "undecodable", slides |-> <<>>, theme |-> "", customTheme |-> "null"],
   [kind |-> "shapeless", slides |-> <<>>, theme |-> "", customTheme |-> "null"],
   [kind |-> "notarray", slides |-> <<>>, theme |-> "dark", customTheme |-> "null"]}
  \cup {[kind |-> "share", slides |-> js, theme |-> th, customTheme |-> ct] :
          js \in {Json(FinishedDeck, FinishedHeap), Json(<<1, Hole>>, FinishedHeap)},
          th \in {"dark", "custom-1", "custom-9"}, ct \in {"null", "custom-1"}}

\* Sessions opened on such links, one after the other.
NextForeign ==
  \/ \E h \in ForeignHashes, st \in StorageValues : openForeignLink(h, st)
  \/ mountEffects
  \/ handleStartOverReload
  \/ (boot = "done" /\ setTopic("topic"))

SpecForeign == Init /\ [][NextForeign]_vars

\* ------------------------------------------------- slide actions
\* The call c of a slide action settles.
SettleCall(c) ==
  \/ \E ok \in BOOLEAN : imageRegenSettled(c, ok)
  \/ \E ok \in BOOLEAN : chartRegenSettled(c, ok)
  \/ contentRegenFailed(c)
  \/ contentRegenChart(c)
  \/ contentRegenImage(c)
  \/ \E reply \in {"rewritten", "untitled", "none"} : enhanceSettled(c, reply)
  \/ \E ok \in BOOLEAN : notesSettled(c, ok)

\* The calls of the slide actions settle.
RegenSettles ==
  \/ \E c \in calls, ok \in BOOLEAN : imageRegenSettled(c, ok)
  \/ \E c \in calls, ok \in BOOLEAN : chartRegenSettled(c, ok)
  \/ \E c \in calls : contentRegenFailed(c)
  \/ \E c \in calls : contentRegenChart(c)
  \/ \E c \in calls : contentRegenImage(c)
  \/ \E c \in calls, reply \in {"rewritten", "untitled", "none"} : enhanceSettled(c, reply)
  \/ \E c \in calls, ok \in BOOLEAN : notesSettled(c, ok)

\* The deck is as the run left it; a call is in flight and the deck still has
\* the run's slides in the run's order.
Finished == slides = FinishedDeck /\ heap = FinishedHeap
Meanwhile == calls # {} /\ slides = FinishedDeck

\* A slide is selected and a slide action is started on the finished deck;
\* while its call is in flight the title is retyped and the deck is extended,
\* shortened or reordered once; then the call settles.
NextRegen ==
  \/ \E index \in 0..(MaxShareSlides - 1) : (Finished /\ calls = {} /\ setCurrentSlideIndex(index))
  \/ \E index \in 0..(MaxShareSlides - 1) : (Room /\ Finished /\ handleRegenerateImage(index))
  \/ \E index \in 0..(MaxShareSlides - 1) : (Room /\ Finished /\ handleRegenerateChart(index))
  \/ (Room /\ Finished /\ handleRegenerateSlideContent)
  \/ (Room /\ Finished /\ handleEnhanceSlide)
  \/ (Room /\ Finished /\ handleGenerateSpeakerNotes)
  \/ (Meanwhile /\ handleUpdateSlide(currentSlideIndex, "title", "typed title"))
  \/ (Meanwhile /\ handleAddSlide)
  \/ \E index \in 0..(MaxShareSlides - 1) : (Meanwhile /\ handleDeleteSlide(index))
  \/ \E index \in 0..(MaxShareSlides - 1) : (Meanwhile /\ onDragStart(index))
  \/ \E index \in 0..(MaxShareSlides - 1) : (Meanwhile /\ onDragEnter(index))
  \/ (Meanwhile /\ handleDragSort)
  \/ RegenSettles

SpecRegen == InitShare /\ [][NextRegen]_vars

\* Every call of a slide action settles.
SpecRegenFair ==
  /\ SpecRegen
  /\ \A action \in {"image", "chart", "content", "enhance", "notes"},
        index \in 0..(MaxShareSlides - 1) :
       WF_vars(\E c \in calls : c.kind = action /\ c.index = index /\ SettleCall(c))

\* ------------------------------------------------- runs after Start Over
\* The pipeline, and on the finished deck the selection of a slide and the
\* speaker-notes action, whose call Start Over does not cancel.
NextRuns ==
  \/ setTopic("topic")
  \/ handleGenerateOutlines
  \/ outlinesResolved(<<OutlineOf(1, MaxPoints)>>)
  \/ timerFires
  \/ setSelectedOutlineIndex(0)
  \/ handleGenerateSlidesFromOutline
  \/ \E chart \in BOOLEAN : contentResolved(chart)
  \/ contentFailed(FALSE)
  \/ \E ok \in BOOLEAN : imageSettled(ok)
  \/ handleStartOver
  \/ \E index \in 0..(MaxPoints - 1) : setCurrentSlideIndex(index)
  \/ (Room /\ handleGenerateSpeakerNotes)
  \/ \E c \in calls, ok \in BOOLEAN : notesSettled(c, ok)

SpecRuns == Init /\ [][NextRuns]_vars

\* ------------------------------------------------- edits during a call
\* The deck is as the run left it and no call is in flight.
Pristine ==
  /\ calls = {}
  /\ slides = [k \in 1..Len(slides) |-> k]
  /\ \A k \in 1..Len(slides) : heap[k] = imageSlide(PointText(1, k))

\* A slide of the finished deck is selected and a regenerate-content call or
\* a notes call is started; while it is in flight slides are deleted and
\* added; after it has settled slides are added.
NextEdits ==
  \/ \E index \in 0..(MaxEditorSlides - 1) : (Pristine /\ setCurrentSlideIndex(index))
  \/ (Pristine /\ handleRegenerateSlideContent)
  \/ (Pristine /\ handleGenerateSpeakerNotes)
  \/ ((calls # {} \/ ~Pristine) /\ Len(slides) <= MaxEditorSlides /\ handleAddSlide)
  \/ \E index \in 0..(MaxEditorSlides - 1) : (calls # {} /\ handleDeleteSlide(index))
  \/ \E c \in calls : contentRegenFailed(c)
  \/ \E c \in calls : contentRegenChart(c)
  \/ \E c \in calls : contentRegenImage(c)
  \/ \E c \in calls, ok \in BOOLEAN : imageRegenSettled(c, ok)
  \/ \E c \in calls, ok \in BOOLEAN : notesSettled(c, ok)

SpecEdits == InitEditor /\ [][NextEdits]_vars

\* ------------------------------------------------- claims on the editor
\* arr without its element at 0-based position i.
Without(arr, i) == [k \in 1..(Len(arr) - 1) |-> IF k <= i THEN arr[k] ELSE arr[k + 1]]

\* C1: whenever the deck is non-empty, currentSlideIndex is a position of
\* the deck (0 <= currentSlideIndex < number of slides), after any sequence
\* of select, add, delete, drag-start, drag-enter and drag-end events.
C1_IndexInDeck ==
  (~crashed /\ Len(slides) > 0) =>
     (0 <= currentSlideIndex /\ currentSlideIndex < Len(slides))

\* C2: delete-slide(j) never leaves fewer than one slide: on a deck of one
\* slide it is rejected (nothing changes), and on a larger deck it removes
\* exactly the slide at j, the other slide objects untouched.
C2_DeleteKeepsOneSlide ==
  /\ [](\A j \in 0..(MaxEditorSlides - 1) :
          Len(slides) = 1 => ~ENABLED handleDeleteSlide(j))
  /\ [][\A j \in 0..(MaxEditorSlides - 1) :
          handleDeleteSlide(j) =>
            /\ Len(slides') >= 1
            /\ Len(slides') = Len(slides) - 1
            /\ slides' = Without(slides, j)
            /\ \A k \in 1..Len(slides') : heap'[slides'[k]] = heap[slides'[k]]]_vars

\* C2 witness: a deck of one slide that was not the first slide of the
\* generated deck: the slides before it have been deleted, and delete is
\* now rejected.
C2_Witness == Len(slides) = 1 /\ slides[1] = 2 /\ ~ENABLED handleDeleteSlide(0)

\* C3: with currentSlideIndex = i, on a deck of at least two slides that is
\* not read-only, delete-slide(j) leaves the index unchanged if j > i and
\* makes it max(0, i-1) if j <= i.
C3_DeleteMovesIndex ==
  [][\A j \in 0..(MaxEditorSlides - 1) :
       (handleDeleteSlide(j) /\ Len(slides) >= 2 /\ ~isReadOnlyView) =>
          /\ (j > currentSlideIndex => currentSlideIndex' = currentSlideIndex)
          /\ (j <= currentSlideIndex =>
                currentSlideIndex' = Max(0, currentSlideIndex - 1))]_vars

\* C3 witness: slide 2 of a generated deck of three was deleted while the
\* third slide was selected: the index went from 2 to 1.
C3_Witness == slides = <<1, 3>> /\ currentSlideIndex = 1 /\ dragItem = Null

\* C4: a reorder with valid source s and destination d, s # d, yields a
\* permutation of the deck in which the slide formerly at s is at d and all
\* other slides keep their relative order.
C4_ReorderMovesOne ==
  [][(handleDragSort /\ dragItem < Len(slides) /\ dragOverItem < Len(slides)) =>
       /\ Len(slides') = Len(slides)
       /\ slides'[dragOverItem + 1] = slides[dragItem + 1]
       /\ Without(slides', dragOverItem) = Without(slides, dragItem)]_vars

\* C4 witness: the first slide of a generated deck of three was dragged to
\* the end.
C4_Witness == slides = <<2, 3, 1>> /\ dragItem = Null /\ dragOverItem = Null

\* C5: after a reorder from s to d (s # d), a currentSlideIndex equal to s
\* becomes d, and one strictly between s and d shifts by one against the
\* direction of the move.
C5_ReorderIndexFollows ==
  [][handleDragSort =>
       /\ (currentSlideIndex = dragItem => currentSlideIndex' = dragOverItem)
       /\ ((dragItem < currentSlideIndex /\ currentSlideIndex < dragOverItem) =>
             currentSlideIndex' = currentSlideIndex - 1)
       /\ ((dragOverItem < currentSlideIndex /\ currentSlideIndex < dragItem) =>
             currentSlideIndex' = currentSlideIndex + 1)]_vars

\* C5 witness: the selected first slide was dragged to the end and the
\* selection followed it.
C5_Witness ==
  slides = <<2, 3, 1>> /\ currentSlideIndex = 2 /\ dragItem = Null /\ dragOverItem = Null

\* C6 as claimed: a currentSlideIndex that is neither s nor strictly
\* between s and d is unchanged by the reorder, one equal to d included.
C6_Original ==
  [][handleDragSort =>
       ((/\ currentSlideIndex # dragItem
         /\ ~(dragItem < currentSlideIndex /\ currentSlideIndex < dragOverItem)
         /\ ~(dragOverItem < currentSlideIndex /\ currentSlideIndex < dragItem))
          => currentSlideIndex' = currentSlideIndex)]_vars

\* C6, amended: a currentSlideIndex outside the span from s to d (both ends
\* included) is unchanged by the reorder; one equal to d (and different
\* from s) shifts by one against the direction of the move, as those
\* strictly between s and d do.
C6_ReorderIndexFrame ==
  [][handleDragSort =>
       /\ ((currentSlideIndex < Min(dragItem, dragOverItem)
            \/ currentSlideIndex > Max(dragItem, dragOverItem))
              => currentSlideIndex' = currentSlideIndex)
       /\ ((currentSlideIndex = dragOverItem /\ dragItem < dragOverItem)
              => currentSlideIndex' = currentSlideIndex - 1)
       /\ ((currentSlideIndex = dragOverItem /\ dragItem > dragOverItem)
              => currentSlideIndex' = currentSlideIndex + 1)]_vars

\* C6 witness: the first slide was dragged onto the second while the third
\* was selected: the selection stayed on position 2.
C6_Witness ==
  slides = <<2, 1, 3>> /\ currentSlideIndex = 2 /\ dragItem = Null /\ dragOverItem = Null

\* The pipeline is inside its loop.
InRun == gen.pc # "idle"

\* The slides of the deck whose visual is resolved: a chart, an image or
\* the error mark.
Resolved(arr, h) ==
  {k \in 1..Len(arr) : arr[k] \in ObjIds /\ (h[arr[k]].chartData # "undefined"
                                               \/ h[arr[k]].imageUrl \in {"data:image", "error"})}

Steps == 2 * gen.i + (IF gen.pc = "image" THEN 1 ELSE 0)

\* p <= q as percentages.
Leq(p, q) == p[1] * q[2] <= q[1] * p[2]

\* C9: for an outline of n >= 1 points the progress reported during a run
\* is completedSteps / (2n) * 100, a chart slide counting two steps; it
\* never decreases within the run; and it is 100 only once the run has
\* left its loop, the visual of every slide resolved.
C9_Progress ==
  /\ [](InRun => /\ progress = Percent(Steps, 2 * Len(gen.points))
                 /\ progress # Percent(1, 1))
  /\ [][InRun => Leq(progress, progress')]_vars
  /\ [][(InRun /\ progress' = Percent(1, 1)) =>
          /\ gen'.pc = "idle" /\ timer' = "presentation"
          /\ Resolved(slides', heap') = 1..Len(gen.points)]_vars

C9_Witness ==
  /\ timer = "presentation" /\ progress = Percent(1, 1) /\ Len(slides) = 2
  /\ heap[slides[1]].chartData = "chart" /\ heap[slides[2]].imageUrl = "error"

\* C10: a rejected image call of slide i sets the imageUrl of slide i to
\* 'error' and changes nothing else of the deck, and the pipeline goes on
\* to the content call of slide i + 1 (or finishes after the last slide);
\* only a failed content call ends a run early, so a run whose content calls
\* all succeed reaches the presentation with one slide per point, whatever
\* image calls failed.
C10_ImageFailureIsolated ==
  /\ [][imageSettled(FALSE) =>
          LET i == gen.i
              n == Len(gen.points)
          IN /\ slides' = slides
             /\ heap' = [heap EXCEPT ![slides[i + 1]].imageUrl = "error"]
             /\ appStep' = appStep
             /\ IF i + 1 < n
                  THEN gen'.pc = "content" /\ gen'.i = i + 1 /\ timer' = "none"
                  ELSE gen'.pc = "idle" /\ timer' = "presentation"]_vars
  /\ [][(InRun /\ gen'.pc = "idle") =>
          \/ (\E resolved \in BOOLEAN : contentFailed(resolved))
          \/ (timer' = "presentation" /\ Len(slides') = Len(gen.points))]_vars
  /\ (InRun ~> (appStep = "presentation" \/ progressText.kind = "error"))

C10_Witness ==
  /\ appStep = "presentation" /\ Len(slides) = 2
  /\ \A k \in 1..2 : heap[slides[k]].imageUrl = "error"

\* C7: under the pipeline and any interleaving of the regenerate-image,
\* regenerate-chart, regenerate-content, enhance and notes actions, no slide
\* of the deck holds both a chart (chartData) and a real image (an imageUrl
\* that is not one of the sentinels).
C7_ChartOrImage ==
  \A k \in 1..Len(slides) :
     slides[k] \in ObjIds =>
        ~(heap[slides[k]].chartData # "undefined" /\ heap[slides[k]].imageUrl \notin Sentinels)

\* C11: when the outline call fails, or a content call fails or returns text
\* that does not parse, the run issues no further remote call, an error
\* message becomes the progress text, the app step does not become
\* 'presentation' for that run, and the app step eventually returns to the
\* prior screen: 'prompt' after an outline failure, 'outline' after a
\* content failure.
C11_FailureAborts ==
  /\ [][(\E resolved \in BOOLEAN : outlinesFailed(resolved)) =>
          (~outlineCall' /\ gen'.pc = "idle" /\ timer' = "prompt")]_vars
  /\ [][(\E resolved \in BOOLEAN : contentFailed(resolved)) =>
          (~outlineCall' /\ gen'.pc = "idle" /\ timer' = "outline")]_vars
  /\ [](timer \in {"prompt", "outline"} =>
          (~outlineCall /\ gen.pc = "idle" /\ appStep = "loading"
             /\ progressText = Text("error", "")))
  /\ [][(timer \in {"prompt", "outline"}) => (appStep' = timer /\ timer' = "none")]_vars
  /\ (timer = "prompt" ~> appStep = "prompt")
  /\ (timer = "outline" ~> appStep = "outline")

C11_Witness ==
  /\ appStep = "outline" /\ progressText = Text("error", "") /\ timer = "none"
  /\ Len(slides) = 2 /\ heap[slides[1]].imageUrl = "data:image"
  /\ heap[slides[2]].imageUrl = "pending"

\* C12: slides generated from the selected outline after its points were
\* edited are titled, in order, by the edited texts of the points of the
\* selected outline (an edit replaces the text of that one point only), and
\* still are when the run completes.
C12_TitlesAreEditedPoints ==
  /\ [][\A o \in 0..1, k \in 0..(MaxPoints - 1) :
          handlePointChange(o, k, "edited") =>
             /\ outlines'[o + 1].points[k + 1] = "edited"
             /\ \A o2 \in 1..Len(outlines) :
                   /\ Len(outlines'[o2].points) = Len(outlines[o2].points)
                   /\ \A k2 \in 1..Len(outlines[o2].points) :
                         (o2 # o + 1 \/ k2 # k + 1) =>
                            outlines'[o2].points[k2] = outlines[o2].points[k2]]_vars
  /\ []((InRun \/ timer = "presentation" \/ appStep = "presentation") =>
          LET points == outlines[selectedOutlineIndex + 1].points
          IN /\ Len(slides) = Len(points)
             /\ \A k \in 1..Len(points) : heap[slides[k]].title = points[k])

\* The second outline was selected and its second point edited.
C12_Witness ==
  /\ appStep = "presentation" /\ selectedOutlineIndex = 1 /\ Len(slides) = 2
  /\ Len(outlines[1].points) = 2
  /\ heap[slides[1]].title = "b1" /\ heap[slides[2]].title = "edited"

\* The deck of this session was loaded from a share link.
Shared == boot = "done" /\ hash.kind = "share"

\* C13: in a session whose deck was loaded from a share link the view is
\* read-only, and edit field, add, delete, reorder, the two visual
\* regenerations, regenerate content, enhance and generate notes are
\* no-ops: no step changes the slide sequence, a slide, currentSlideIndex or
\* the busy flags, and no remote call is issued.
C13_ReadOnlyFrame ==
  /\ [](Shared => (isReadOnlyView /\ calls = {} /\ slideActionLoading = {}))
  /\ [][(Shared /\ Shared') =>
          /\ slides' = slides /\ heap' = heap
          /\ currentSlideIndex' = currentSlideIndex
          /\ slideActionLoading' = slideActionLoading
          /\ calls' = calls]_vars
  /\ [](Shared =>
          /\ ~ENABLED handleAddSlide
          /\ ~ENABLED handleDragSort
          /\ ~ENABLED handleRegenerateSlideContent
          /\ ~ENABLED handleEnhanceSlide
          /\ ~ENABLED handleGenerateSpeakerNotes
          /\ \A index \in 0..(MaxShareSlides - 1) :
                /\ ~ENABLED handleDeleteSlide(index)
                /\ ~ENABLED handleRegenerateImage(index)
                /\ ~ENABLED handleRegenerateChart(index)
                /\ ~ENABLED handleUpdateSlide(index, "title", "typed title"))

C13_Witness ==
  /\ Shared /\ isReadOnlyView /\ ~crashed /\ Len(slides) = 2
  /\ heap[slides[1]].chartData = "chart" /\ heap[slides[2]].speakerNotes = "generated notes"

\* ------------------------------------------------- claims on share links
\* Two decks have the same slides in the same order: position by position
\* the same kind of element, and for slides the same value of every field.
SameDeck(arr, h, arr2, h2) ==
  /\ Len(arr) = Len(arr2)
  /\ \A k \in 1..Len(arr) :
       IF arr[k] \in ObjIds THEN arr2[k] \in ObjIds /\ h2[arr2[k]] = h[arr[k]]
       ELSE arr2[k] = arr[k]

\* C14: whenever handlePublish produces a fragment, the deck a new session
\* loads from that fragment has the slides of the published deck, field by
\* field and in the same order, and the published theme id.
C14_RoundTrip ==
  /\ [][(shareUrl.kind = "none" /\ shareUrl'.kind = "share") =>
          /\ SameDeck(slides, heap, Decoded(shareUrl'.slides), DecodedHeap(shareUrl'.slides))
          /\ shareUrl'.theme = theme]_vars
  /\ [][(boot = "mount" /\ boot' = "done" /\ hash.kind = "share") =>
          /\ slides' = Decoded(hash.slides) /\ heap' = DecodedHeap(hash.slides)
          /\ theme' = hash.theme /\ ~crashed']_vars

\* C15: once the mount effects of a session opened on a share link that
\* carries a custom theme have run, customThemes holds exactly one theme with
\* the carried id and the deck is read-only, whatever the storage item was.
C15_CarriedThemeMerged ==
  (Shared /\ hash.customTheme # "null") =>
     /\ Cardinality({k \in 1..Len(customThemes) : customThemes[k] = hash.customTheme}) = 1
     /\ isReadOnlyView

\* C16: once the mount effects have run, the active theme id is one of the
\* built-in ids or the id of an entry of customThemes.
C16_ThemeResolves ==
  boot = "done" => theme \in DefaultThemes \cup Range(customThemes)

\* C17: a session opened on a fragment that does not decode, does not parse,
\* or has no slides array or no theme is not read-only, shows the prompt
\* screen with an empty deck, and has its fragment cleared.
C17_MalformedRejected ==
  [][(boot = "mount" /\ boot' = "done"
        /\ hash.kind \in {"undecodable", "shapeless", "notarray"}) =>
       /\ ~isReadOnlyView' /\ appStep' = "prompt" /\ slides' = <<>>
       /\ hash' = NoHash /\ ~crashed']_vars

\* ------------------------------------------------- claims on slide actions
\* The slide object id is in the deck and waits for its image.
LoadingInDeck(id) == id \in Range(slides) /\ heap[id].imageUrl = "loading"

\* C18: when every call settles, a slide of the deck whose imageUrl is
\* 'loading' does not keep that value forever.
C18_LoadingEnds ==
  \A id \in ObjIds : LoadingInDeck(id) ~> ~LoadingInDeck(id)

\* The value at 1-based position k of a deck: the slide's fields, or the
\* element itself where no slide object is.
SlideAt(arr, h, k) == IF arr[k] \in ObjIds THEN h[arr[k]] ELSE arr[k]

\* C19: the step that completes a successful notes call for slide i leaves
\* the slide count, the order and every field of every slide as they were,
\* except that slide i's speakerNotes is the response text.
C19_NotesOnly ==
  [][\A c \in calls : notesSettled(c, TRUE) =>
       /\ Len(slides') = Len(slides)
       /\ c.index < Len(slides)
       /\ \A k \in 1..Len(slides) :
            SlideAt(slides', heap', k) =
              IF k = c.index + 1 /\ slides[k] \in ObjIds
                THEN [heap[slides[k]] EXCEPT !.speakerNotes = "generated notes"]
                ELSE SlideAt(slides, heap, k)]_vars

\* C20: the step that completes an enhance call whose reply has no bullet
\* line leaves the deck as it was (the order, and every field of every
\* slide, so no imageUrl becomes 'error'), throws nothing, and clears the
\* (enhance, index) flag.
C20_EmptyEnhanceKeepsDeck ==
  [][\A c \in calls : enhanceSettled(c, "none") =>
       /\ slides' = slides
       /\ \A k \in 1..Len(slides) : SlideAt(slides', heap', k) = SlideAt(slides, heap, k)
       /\ crashed' = crashed
       /\ <<"enhance", c.index>> \notin slideActionLoading']_vars

\* An enhance call was started on the first slide, the title was retyped
\* while it was in flight, and the call has settled without a rewrite.
C20_Witness ==
  /\ calls = {} /\ slideActionLoading = {} /\ ~crashed
  /\ slides = FinishedDeck /\ currentSlideIndex = 0
  /\ heap[slides[1]] = [FinishedHeap[1] EXCEPT !.title = "typed title"]
  /\ heap[slides[2]] = FinishedHeap[2]

\* The busy flag (action, index) is shown: after an uncaught render error the
\* component tree is unmounted and no flag is left.
Busy(action, index) == ~crashed /\ <<action, index>> \in slideActionLoading

SlideActions == {"image", "chart", "content", "enhance", "notes"}

\* C21: a slide action that starts a call sets its flag (action, index) in
\* the same step; a flag that is set is reset later, however the call
\* settles; and while the call of a regenerate-content action, its nested
\* image call included, is in flight, the (content, index) flag is set.
C21_FlagsSetAndReset ==
  /\ [][\A c \in calls' \ calls :
          c.stage = "call" => <<c.kind, c.index>> \in slideActionLoading']_vars
  /\ \A action \in SlideActions, index \in 0..(MaxShareSlides - 1) :
       Busy(action, index) ~> ~Busy(action, index)
  /\ [](\A c \in calls : (c.kind = "content" /\ ~crashed) =>
                            <<"content", c.index>> \in slideActionLoading)

\* An image call has failed and every flag is reset.
C21_Witness ==
  /\ calls = {} /\ slideActionLoading = {} /\ ~crashed
  /\ \E id \in Range(slides) \cap ObjIds : heap[id].imageUrl = "error"

\* C22: handleAddSlide on a deck of n slides gives a deck of n + 1 slides
\* whose first n are as they were and whose last has the placeholder
\* content, the layout 'text-left', no chart and no image; the page still
\* renders and currentSlideIndex is n.
C22_AddAppends ==
  [][handleAddSlide =>
       /\ Len(slides') = Len(slides) + 1
       /\ \A k \in 1..Len(slides) : SlideAt(slides', heap', k) = SlideAt(slides, heap, k)
       /\ SlideAt(slides', heap', Len(slides')) = newSlide
       /\ newSlide.layout = "text-left" /\ newSlide.chartData = "undefined"
       /\ newSlide.imageUrl = "undefined"
       /\ currentSlideIndex' = Len(slides)
       /\ ~crashed']_vars

\* C23: the step that completes a successful regenerate-content action on
\* index i (the chart reply, or the settling of the nested image call)
\* leaves at index i a slide with the title, the bullets and the image
\* prompt of the content reply.
C23_ContentApplied ==
  [][\A c \in calls :
       (contentRegenChart(c)
          \/ (c.kind = "content" /\ \E ok \in BOOLEAN : imageRegenSettled(c, ok))) =>
         /\ At(slides', c.index) \in ObjIds
         /\ heap'[At(slides', c.index)].title = "new title"
         /\ heap'[At(slides', c.index)].content = "new content"
         /\ heap'[At(slides', c.index)].imagePrompt = "new prompt"]_vars

\* C24: a step in which a call of regenerate image, chart or content or of
\* enhance, started on index i, settles changes no slide other than the one
\* at index i of the deck of that moment: the slide count and every other
\* position are as they were.
C24_OnlyIndexTouched ==
  [][\A c \in calls :
       (c.kind \in {"image", "chart", "content", "enhance"} /\ SettleCall(c)) =>
         /\ Len(slides') = Len(slides)
         /\ \A k \in 1..Len(slides) :
              k # c.index + 1 => SlideAt(slides', heap', k) = SlideAt(slides, heap, k)]_vars

\* ------------------------------------------------- claims on the pipeline's calls
\* The remote calls in flight: the outline call, the call the pipeline
\* awaits, and the calls of slide actions.
RemoteCalls ==
  (IF outlineCall THEN 1 ELSE 0) + (IF gen.pc \in {"content", "image"} THEN 1 ELSE 0)
    + Cardinality(calls)

\* C25 as stated: during a run at most one remote call is in flight.
C25_Original == InRun => RemoteCalls <= 1

\* C25: during a run the pipeline awaits exactly one call of its own, a
\* content call or an image call, and no outline call is in flight; the
\* content call of slide 0 is issued by the start of the run, and the content
\* call of slide i + 1 by the step that settles the image call of slide i or
\* that receives the chart of slide i.
C25_PipelineSequential ==
  /\ [](InRun => (gen.pc \in {"content", "image"} /\ ~outlineCall))
  /\ [][(gen'.pc = "content" /\ gen' # gen) =>
          \/ (gen.pc = "idle" /\ gen'.i = 0 /\ handleGenerateSlidesFromOutline)
          \/ /\ gen'.i = gen.i + 1
             /\ (gen.pc = "image" \/ contentResolved(TRUE))]_vars

\* The content call of the second slide is in flight while a notes call of
\* the deck before Start Over is still pending.
C25_Witness == gen.pc = "content" /\ gen.i = 1 /\ calls # {}

\* C26: when the content reply of slide i carries a chart, that step installs
\* the chart on slide i with no image, issues no image call for slide i, and
\* counts both steps of slide i: the progress is 2(i + 1) / 2n when the
\* content call of slide i + 1 is issued, or 100 after the last slide.
C26_ChartSkipsImage ==
  [][contentResolved(TRUE) =>
       LET i == gen.i
           n == Len(gen.points)
       IN /\ slides'[i + 1] \in ObjIds
          /\ heap'[slides'[i + 1]].chartData = "chart"
          /\ heap'[slides'[i + 1]].imageUrl = "undefined"
          /\ gen'.pc # "image"
          /\ progress' = Percent(2 * (i + 1), 2 * n)
          /\ IF i + 1 < n THEN gen'.pc = "content" /\ gen'.i = i + 1
                          ELSE gen'.pc = "idle" /\ timer' = "presentation"]_vars

\* The chart of the first slide is installed and the content call of the
\* second slide is in flight.
C26_Witness ==
  /\ gen.pc = "content" /\ gen.i = 1 /\ Len(gen.points) = 2
  /\ heap[slides[1]].chartData = "chart" /\ progress = Percent(2, 4)

\* ------------------------------------------------- claims on the slide count
\* C27: on the presentation step a step that completes a regeneration or a
\* speaker-notes action leaves the number of slides as it is.
C27_CompletionKeepsCount ==
  [][(appStep = "presentation" /\ \E c \in calls : SettleCall(c)) =>
       Len(slides') = Len(slides)]_vars

\* C28: every reorder that handleDragSort performs uses a source index and a
\* destination index that were both captured since the previous drag-end
\* and are both positions of the current deck.
C28_ReorderUsesValidIndices ==
  [][handleDragSort =>
       /\ dragItem \in 0..(Len(slides) - 1)
       /\ dragOverItem \in 0..(Len(slides) - 1)]_vars

\* C29: while the pipeline processes slide i the deck has one slide per
\* point of the outline, every slide after i is still the placeholder of its
\* point and every slide before i is resolved; the step that enters the
\* presentation screen leaves no slide 'pending' or 'loading' and leaves
\* currentSlideIndex at 0.
C29_DeckDuringRun ==
  /\ [](InRun =>
         /\ Len(slides) = Len(gen.points)
         /\ \A k \in 1..Len(slides) :
               /\ k > gen.i + 1 =>
                     (slides[k] \in ObjIds /\ heap[slides[k]] = placeholder(gen.points[k]))
               /\ k < gen.i + 1 => k \in Resolved(slides, heap))
  /\ [][(appStep # "presentation" /\ appStep' = "presentation") =>
          /\ currentSlideIndex' = 0
          /\ Resolved(slides', heap') = 1..Len(slides')]_vars

\* C30: in the earlier editor a reorder whose source index is the selected
\* slide leaves currentSlideIndex equal to the destination index.
C30_EarlierSelectionFollows ==
  [][earlierHandleDragSort =>
       (currentSlideIndex = dragItem => currentSlideIndex' = dragOverItem)]_vars

=============================================================================
